---- MODULE Spec2Model ----
(***************************************************************************)
(* A model of gridfig's two cores: the layout geometry of the matplotlib   *)
(* backend (backend/mpl.py, fed by style/styles.py's Layout) and the style *)
(* resolution of the style elements (style/style_elements.py and           *)
(* style/styles.py).                                                       *)
(*                                                                         *)
(* Numbers.  Ratio-unit quantities (ratios, margins, spacing) are integers *)
(* counting 1/Unit of a ratio unit; a panel size is a whole number of      *)
(* device units per ratio unit.  A Python value is a record                *)
(* [kind, items]: kind is "int" or "float" for a scalar (items = <<v>>),   *)
(* "list" for a Python list and "ndarray" for a numpy array.  The kind     *)
(* decides what the operator * of the source does (see PyMul).  A          *)
(* normalized coordinate is the exact fraction <<numerator, denominator>>  *)
(* of two device-unit quantities.                                          *)
(***************************************************************************)
EXTENDS Integers, Sequences, FiniteSets, TLC

VARIABLES
    shape,      \* dg.getShape(): <<nrows, ncols>>
    largs,      \* Layout.args of styles.py: layout key -> Python value
    pc,         \* where the figure build stands
    lo,         \* sg.fstyles['layout'], the mapping makeFig reads
    figsize,    \* <<figwidth, figheight>> of _getFigsize, <<>> before it ran
    axes,       \* cell <<i, j>> -> axdim handed to _createAx
    ci,         \* makeFig's row loop index i
    cj,         \* makeFig's column loop index j
    err,        \* the exception that ended the build, "none" if none
    errkey,     \* the key the exception of Layout.getStyles names, "none" if none
    lrules,     \* Layout.rules of styles.py
    elements,   \* StyleManager.elements without the layout: name -> element
    fstyles,    \* sg.fstyles without its 'layout' entry: name -> mapping
    astyles_all,\* sg.astyles_all: name -> mapping
    astyles,    \* sg.astyles: cell <<i, j>> -> (name -> mapping)
    drawn,      \* the calls made to the rendering library, with their keywords
    late,       \* how many configuration calls were made after getStyleGrid
    snap,       \* history: the StyleGrid as getStyleGrid returned it
    kind,       \* the class of the style element under resolution
    args,       \* StyleElement.args: key -> value
    rules,      \* StyleElement.rules: sequence of [cond, args]
    type_style, \* StyleElement.type_style: tag -> (key -> value)
    panel_style,\* VizArgs.panel_style: property -> value -> (key -> value)
    ctx,        \* the context of the last getStyles call
    ret,        \* what the last getStyles call returned
    warned,     \* the tags the last getStyles call printed a warning for
    live,       \* history: the conditions given or added to the rule under
                \* test and not removed since
    heap,       \* the objects: heap[id] is a dict or a list
    oelem,      \* a style element as an object: the ids of its dicts
    octx,       \* the context the element is queried with
    ores,       \* the ids of the dicts the getStyles calls returned, in order
    oval,       \* history: each returned dict by value, as it was on return
    ntouch,     \* how often the caller changed a dict it holds
    added,      \* history: the elements given to addElement, in order
    panels      \* DataGrid.panels: the rows of the array, each a sequence
                \* of panels [id, len]

gridVars == <<fstyles, astyles_all, astyles>>
layoutVars ==
    <<shape, largs, pc, lo, figsize, axes, ci, cj, err, errkey, lrules, elements,
      gridVars, drawn, late, snap>>
styleVars == <<kind, args, rules, type_style, panel_style, ctx, ret, warned, live>>
objVars == <<heap, oelem, octx, ores, oval, ntouch>>
dataVars == <<added, panels>>
vars == <<layoutVars, styleVars, objVars, dataVars>>

-----------------------------------------------------------------------------
(* Bounds of the model *)

MaxRows == 3
MaxCols == 3
Unit == 20
MaxRules == 2
MaxConds == 3
MaxTouch == 1
MaxGrid == 2
MaxLate == 1
MaxDefault == 2
MaxAdds == 3

-----------------------------------------------------------------------------
(* Python values and numpy helpers *)

EmptyMap == [k \in {} |-> 0]

Scalar(k, v) == [kind |-> k, items |-> <<v>>]

PyList(s) == [kind |-> "list", items |-> s]

NdArray(s) == [kind |-> "ndarray", items |-> s]

TypeError == [kind |-> "TypeError", items |-> <<>>]

RECURSIVE SumSeq(_)
SumSeq(s) == IF s = <<>> THEN 0 ELSE Head(s) + SumSeq(Tail(s))

RECURSIVE Repeat(_, _)
Repeat(s, n) == IF n <= 0 THEN <<>> ELSE s \o Repeat(s, n - 1)

\* Python's s[:n] for n >= 0
Take(s, n) == SubSeq(s, 1, IF n < Len(s) THEN n ELSE Len(s))

\* x * s as mpl.py writes it, s a panel size.  A list times an int is the
\* list repeated, a list times a float (Python's or numpy's) is a TypeError,
\* an ndarray is scaled element by element, a scalar is multiplied.
PyMul(x, s) ==
    IF x.kind = "list"
    THEN IF s.kind = "int" THEN PyList(Repeat(x.items, s.items[1])) ELSE TypeError
    ELSE IF x.kind = "ndarray"
    THEN NdArray([n \in DOMAIN x.items |-> x.items[n] * s.items[1]])
    ELSE Scalar(IF x.kind = "int" /\ s.kind = "int" THEN "int" ELSE "float",
                x.items[1] * s.items[1])

\* np.sum of a scalar, a list or an array
NpSum(x) == SumSeq(x.items)

\* np.sum(x[:n])
NpSumTo(x, n) == SumSeq(Take(x.items, n))

-----------------------------------------------------------------------------
(* Mappings (Python dicts) *)

\* m.update(n)
MapUpdate(m, n) ==
    [k \in DOMAIN m \cup DOMAIN n |-> IF k \in DOMAIN n THEN n[k] ELSE m[k]]

\* m[k] = v
MapSet(m, k, v) == [x \in DOMAIN m \cup {k} |-> IF x = k THEN v ELSE m[x]]

\* the mapping {k: v}
OneKey(k, v) == [x \in {k} |-> v]

-----------------------------------------------------------------------------
(* Style resolution: style_elements.py and styles.py *)

\* StyleRule.addCondition
StyleRule_addCondition(cond, new_condition) == Append(cond, new_condition)

\* StyleRule.rmCondition: the list without the conditions equal to the one given
StyleRule_rmCondition(cond, condition_to_remove) ==
    SelectSeq(cond, LAMBDA x : x # condition_to_remove)

\* a variant of StyleRule.__call__ that applies when some condition is true
StyleRule_call_any(rule, c) ==
    IF \E n \in 1..Len(rule.cond) : rule.cond[n] \in c.holds
    THEN rule.args
    ELSE EmptyMap

\* StyleRule.__call__: the rule's args if every condition of the list is
\* true in the context, the empty mapping otherwise.  A condition is named;
\* c.holds is the set of conditions that return True for the context.
StyleRule_call(rule, c) ==
    IF \A n \in 1..Len(rule.cond) : rule.cond[n] \in c.holds
    THEN rule.args
    ELSE EmptyMap

\* for rule in self.rules: ret_args.update(rule(dg))
RECURSIVE ApplyRules(_, _, _)
ApplyRules(m, rs, c) ==
    IF rs = <<>> THEN m
    ELSE ApplyRules(MapUpdate(m, StyleRule_call(Head(rs), c)), Tail(rs), c)

\* StyleElement.getStyles of style_elements.py: a copy of the defaults, then
\* the rules in list order.
StyleElement_getStyles(a, rs, c) == ApplyRules(a, rs, c)

\* a variant of the tag loop that gives up at the first tag without an entry
RECURSIVE ApplyTags_stopAtUnknown(_, _, _)
ApplyTags_stopAtUnknown(m, ts, tags) ==
    IF tags = <<>> THEN m
    ELSE IF Head(tags) \in DOMAIN ts
         THEN ApplyTags_stopAtUnknown(MapUpdate(m, ts[Head(tags)]), ts, Tail(tags))
         ELSE m

\* for ft in tags: if ft in self.type_style: ret_args.update(type_style[ft])
\* (a tag without an entry prints a warning and is skipped)
RECURSIVE ApplyTags(_, _, _)
ApplyTags(m, ts, tags) ==
    IF tags = <<>> THEN m
    ELSE ApplyTags(IF Head(tags) \in DOMAIN ts THEN MapUpdate(m, ts[Head(tags)]) ELSE m,
                   ts, Tail(tags))

\* the tags the loop prints "Warning: ... not found" for, in the order printed
RECURSIVE TagWarnings(_, _)
TagWarnings(ts, tags) ==
    IF tags = <<>> THEN <<>>
    ELSE (IF Head(tags) \in DOMAIN ts THEN <<>> ELSE <<Head(tags)>>)
         \o TagWarnings(ts, Tail(tags))

RECURSIVE Reverse(_)
Reverse(s) == IF s = <<>> THEN <<>> ELSE Append(Reverse(Tail(s)), Head(s))

\* a variant of FigArgs.getStyles that walks dg.fig_type backwards
FigArgs_getStyles_backwards(a, rs, ts, c) ==
    ApplyTags(StyleElement_getStyles(a, rs, c), ts, Reverse(c.tags))

\* FigArgs.getStyles: super().getStyles(dg), then the overrides of dg.fig_type
FigArgs_getStyles(a, rs, ts, c) ==
    ApplyTags(StyleElement_getStyles(a, rs, c), ts, c.tags)

\* PanelArgs.getStyles: super().getStyles(dg), then the overrides of the
\* panel's axis_types
PanelArgs_getStyles(a, rs, ts, c) ==
    ApplyTags(StyleElement_getStyles(a, rs, c), ts, c.tags)

\* the panel-value override of an item-level element: the entry of
\* panel_style for the panel's grouping property and the item's value of it
PanelValueUpdate(m, ps, c) ==
    IF c.pprop \in DOMAIN ps
    THEN IF c.pval # "none"
         THEN IF c.pval \in DOMAIN ps[c.pprop]
              THEN MapUpdate(m, ps[c.pprop][c.pval])
              ELSE m
         ELSE m
    ELSE m

\* VizArgs.getStyles: defaults, rules, the overrides of the item's
\* plot_types, then the panel-value override
VizArgs_getStyles(a, rs, ts, ps, c) ==
    PanelValueUpdate(ApplyTags(ApplyRules(a, rs, c), ts, c.tags), ps, c)

\* for rule in self.rules: new_args = rule(...); if new_args: args.update(new_args)
RECURSIVE ApplyRulesSE(_, _, _)
ApplyRulesSE(m, rs, c) ==
    IF rs = <<>> THEN m
    ELSE LET new_args == StyleRule_call(Head(rs), c)
         IN ApplyRulesSE(IF new_args # EmptyMap THEN MapUpdate(m, new_args) ELSE m,
                         Tail(rs), c)

\* a variant of FigSE.getStyles that walks the rule list backwards
FigSE_getStyles_backwards(a, rs, c) == ApplyRulesSE(a, Reverse(rs), c)

\* FigSE.getStyles of styles.py
FigSE_getStyles(a, rs, c) == ApplyRulesSE(a, rs, c)

\* PanelSE.getStyles of styles.py
PanelSE_getStyles(a, rs, c) == ApplyRulesSE(a, rs, c)

\* VizSE.getStyles of styles.py: defaults, rules, then the panel-value override
VizSE_getStyles(a, rs, ps, c) == PanelValueUpdate(ApplyRules(a, rs, c), ps, c)

-----------------------------------------------------------------------------
(* Layout of styles.py *)

NEED_KEYS ==
    {"top", "bottom", "left", "right", "panel_height", "panel_width", "wspace", "hspace"}

OPT_KEYS == {"height_ratios", "width_ratios"}

\* Layout.updateArgs: the keys of new_args (a sequence of <<key, value>>, in
\* the mapping's order) are stored one by one; a key that is not a layout key
\* raises ValueError at that point.
RECURSIVE Layout_updateArgs(_, _)
Layout_updateArgs(a, new_args) ==
    IF new_args = <<>> THEN [args |-> a, err |-> "none"]
    ELSE LET k == Head(new_args)[1]
             v == Head(new_args)[2]
         IN IF k \notin NEED_KEYS /\ k \notin OPT_KEYS
            THEN [args |-> a, err |-> "ValueError"]
            ELSE Layout_updateArgs(MapSet(a, k, v), Tail(new_args))

\* Layout.setAllMargins
Layout_setAllMargins(a, margin_size) ==
    Layout_updateArgs(a, << <<"top", margin_size>>, <<"bottom", margin_size>>,
                            <<"left", margin_size>>, <<"right", margin_size>> >>)

\* Layout.setSquarePanels
Layout_setSquarePanels(a, panel_size) ==
    Layout_updateArgs(a, << <<"panel_width", panel_size>>, <<"panel_height", panel_size>> >>)

\* Layout.setPadding
Layout_setPadding(a, pad) ==
    Layout_updateArgs(a, << <<"wspace", pad>>, <<"hspace", pad>> >>)

\* a variant of Layout.getStyles that looks for the needed keys in the
\* resolved mapping
Layout_getStyles_resolved(a, rs, c) ==
    IF \E k \in NEED_KEYS : k \notin DOMAIN FigSE_getStyles(a, rs, c)
    THEN [err |-> "ValueError", keys |-> NEED_KEYS \ DOMAIN FigSE_getStyles(a, rs, c),
          styles |-> EmptyMap]
    ELSE [err |-> "none", keys |-> {}, styles |-> FigSE_getStyles(a, rs, c)]

\* Layout.getStyles: ValueError when a needed key is not among the defaults,
\* FigSE.getStyles otherwise.  The error names the first key of the set
\* NEED_KEYS, in the set's iteration order, that self.args lacks: keys is
\* the set of the keys it may name.
Layout_getStyles(a, rs, c) ==
    IF \E k \in NEED_KEYS : k \notin DOMAIN a
    THEN [err |-> "ValueError", keys |-> {k \in NEED_KEYS : k \notin DOMAIN a},
          styles |-> EmptyMap]
    ELSE [err |-> "none", keys |-> {}, styles |-> FigSE_getStyles(a, rs, c)]

\* required_keys of Layout.getStyles of style_elements.py, in list order
REQUIRED_KEYS ==
    <<"panel_width", "panel_height", "xspace", "yspace", "top", "bottom", "left", "right">>

\* Layout.getStyles of style_elements.py: KeyError for the first key of
\* required_keys that self.args lacks, FigArgs.getStyles otherwise
ArgsLayout_getStyles(a, rs, ts, c) ==
    IF \E n \in DOMAIN REQUIRED_KEYS : REQUIRED_KEYS[n] \notin DOMAIN a
    THEN [err |-> "KeyError",
          keys |-> {REQUIRED_KEYS[n] : n \in
                       {n \in DOMAIN REQUIRED_KEYS :
                           /\ REQUIRED_KEYS[n] \notin DOMAIN a
                           /\ \A m \in 1..(n - 1) : REQUIRED_KEYS[m] \in DOMAIN a}},
          styles |-> EmptyMap]
    ELSE [err |-> "none", keys |-> {}, styles |-> FigArgs_getStyles(a, rs, ts, c)]

-----------------------------------------------------------------------------
(* StyleManager and StyleGrid of styles.py and style_grid.py *)

\* isinstance(elm, FigSE) and isinstance(elm, PanelSE), by class
IsFigSE(kd) == kd \in {"FigSE", "Layout"}
IsPanelSE(kd) == kd \in {"PanelSE", "Legend", "Ticks", "Edges", "Grid"}

\* the name an element of a class gets in its __init__
NameOf(kd) ==
    CASE kd = "FigSE" -> "figure"
      [] kd = "Layout" -> "layout"
      [] kd = "PanelSE" -> "axis"
      [] kd = "Legend" -> "legend"
      [] kd = "Ticks" -> "ticks"
      [] kd = "Edges" -> "edges"
      [] kd = "Grid" -> "grid"
      [] kd = "VizSE" -> "plot"

\* the conditions of rules, by name: what each returns for the grid shape
\* sh and the cell (i, j).  "always" and "never" are the caller's; _noBottom
\* and _noLeft are those of Ticks.setDefault, visibleCondition is that of
\* Legend.setVisiblePanels((0, 0)).
CondHolds(c, sh, i, j) ==
    CASE c = "always" -> TRUE
      [] c = "never" -> FALSE
      [] c = "_noBottom" -> ~(i = sh[1] - 1)
      [] c = "_noLeft" -> ~(j = 0)
      [] c = "visibleCondition" -> <<i, j>> = <<0, 0>>

GridConds == {"always", "never", "_noBottom", "_noLeft", "visibleCondition"}

\* the context (dg, i, j) of a panel-level query
CtxAt(sh, i, j) ==
    [called |-> TRUE, tags |-> <<>>, holds |-> {c \in GridConds : CondHolds(c, sh, i, j)},
     pprop |-> "none", pval |-> "none"]

\* the context (dg) of a figure-level query
FigCtx == [called |-> TRUE, tags |-> <<>>, holds |-> {"always"}, pprop |-> "none",
           pval |-> "none"]

\* a variant of setDefault whose two rules have each other's condition
Ticks_setDefault_swapped(rs) ==
    Append(Append(rs, [cond |-> <<"_noLeft">>, args |-> OneKey("labelbottom", 0)]),
           [cond |-> <<"_noBottom">>, args |-> OneKey("labelleft", 0)])

\* Ticks.setDefault: two rules are appended to the element's rule list,
\* labelbottom = False under _noBottom and labelleft = False under _noLeft
Ticks_setDefault(rs) ==
    Append(Append(rs, [cond |-> <<"_noBottom">>, args |-> OneKey("labelbottom", 0)]),
           [cond |-> <<"_noLeft">>, args |-> OneKey("labelleft", 0)])

\* a variant of addElement that keeps the element a name already has
RECURSIVE StyleManager_addElement_keepFirst(_, _)
StyleManager_addElement_keepFirst(elems, se) ==
    IF se = <<>> THEN elems
    ELSE StyleManager_addElement_keepFirst(
             IF NameOf(Head(se).kind) \in DOMAIN elems THEN elems
             ELSE MapSet(elems, NameOf(Head(se).kind), Head(se)),
             Tail(se))

\* StyleManager.addElement(se) for a list of elements (one element is the
\* list of it): for elm in se: self.elements[elm.getName()] = elm
RECURSIVE StyleManager_addElement(_, _)
StyleManager_addElement(elems, se) ==
    IF se = <<>> THEN elems
    ELSE StyleManager_addElement(MapSet(elems, NameOf(Head(se).kind), Head(se)), Tail(se))

\* a variant of forAllPanels that says yes for every element
PanelSE_forAllPanels_always(elm) == TRUE

\* a variant of forAllPanels that never says yes
PanelSE_forAllPanels_never(elm) == FALSE

\* PanelSE.forAllPanels: the element has no rule
PanelSE_forAllPanels(elm) == Len(elm.rules) = 0

\* StyleGrid._set: the entry of _name, made if there is none, is updated
StyleGrid_set(dct, name, a) ==
    MapSet(dct, name, MapUpdate(IF name \in DOMAIN dct THEN dct[name] ELSE EmptyMap, a))

\* StyleGrid(dg): no figure-level entry, no all-panels entry, an empty
\* mapping for every cell
StyleGrid_init(sh) ==
    [fstyles |-> EmptyMap, astyles_all |-> EmptyMap,
     astyles |-> [cell \in (0..(sh[1] - 1)) \X (0..(sh[2] - 1)) |-> EmptyMap]]

\* the body of getStyleGrid's loop for the element elm registered as name
StyleGrid_add(sg, name, elm, sh) ==
    IF IsFigSE(elm.kind)
    THEN [sg EXCEPT !.fstyles =
             StyleGrid_set(@, name, FigSE_getStyles(elm.args, elm.rules, FigCtx))]
    ELSE IF IsPanelSE(elm.kind)
    THEN IF PanelSE_forAllPanels(elm)
         THEN [sg EXCEPT !.astyles_all =
                  StyleGrid_set(@, name,
                                PanelSE_getStyles(elm.args, elm.rules, CtxAt(sh, 0, 0)))]
         ELSE [sg EXCEPT !.astyles =
                  [cell \in DOMAIN @ |->
                      StyleGrid_set(@[cell], name,
                                    PanelSE_getStyles(elm.args, elm.rules,
                                                      CtxAt(sh, cell[1], cell[2])))]]
    ELSE sg

\* for name, elm in self.elements.items(): ...
RECURSIVE StyleGrid_fill(_, _, _, _)
StyleGrid_fill(sg, names, elems, sh) ==
    IF names = {} THEN sg
    ELSE LET name == CHOOSE x \in names : TRUE
         IN StyleGrid_fill(StyleGrid_add(sg, name, elems[name], sh), names \ {name},
                           elems, sh)

\* StyleManager.getStyleGrid for the elements other than the layout
StyleManager_getStyleGrid(elems, sh) ==
    StyleGrid_fill(StyleGrid_init(sh), DOMAIN elems, elems, sh)

-----------------------------------------------------------------------------
(* MPL of backend/mpl.py *)

\* the exact fraction n / d
Frac(n, d) == <<n, d>>

\* hrs / wrs of makeFig and _getFigsize: the ratios of the layout, [1] * n
\* when the layout has none
Ratios(l, key, n) ==
    IF key \notin DOMAIN l THEN PyList([k \in 1..n |-> Unit]) ELSE l[key]

\* yb = [lo['top'], lo['bottom']], xb = [lo['left'], lo['right']]
Border(l, first, second) == PyList(<<l[first].items[1], l[second].items[1]>>)

\* makeFig's hs = [lo['hspace']] * nrows and ws = [lo['wspace']] * ncols
SpaceList(l, key, n) == PyList([k \in 1..n |-> l[key].items[1]])

\* the products of _getFigsize, lines 111-113
FS_width_ratios(l, sh) == PyMul(Ratios(l, "width_ratios", sh[2]), l["panel_width"])
FS_height_ratios(l, sh) == PyMul(Ratios(l, "height_ratios", sh[1]), l["panel_height"])
FS_xborder(l) == PyMul(Border(l, "left", "right"), l["panel_width"])
FS_yborder(l) == PyMul(Border(l, "top", "bottom"), l["panel_height"])
FS_wspace(l) == PyMul(l["wspace"], l["panel_width"])
FS_hspace(l) == PyMul(l["hspace"], l["panel_height"])

\* whether _getFigsize raises TypeError in one of its products
FigsizeRaises(l, sh) ==
    TypeError \in {FS_width_ratios(l, sh), FS_height_ratios(l, sh), FS_xborder(l),
                   FS_yborder(l), FS_wspace(l), FS_hspace(l)}

\* MPL._getFigsize: [figwidth, figheight]
MPL_getFigsize(l, sh) ==
    LET total_widths == NpSum(FS_width_ratios(l, sh))
        total_wspace == NpSum(FS_wspace(l))
        wborder_space == NpSum(FS_xborder(l))
        total_heights == NpSum(FS_height_ratios(l, sh))
        total_hspace == NpSum(FS_hspace(l))
        hborder_space == NpSum(FS_yborder(l))
    IN << total_widths + total_wspace + wborder_space,
          total_heights + total_hspace + hborder_space >>

\* the products of makeFig, lines 39-41
MF_width_ratios(l, sh) == PyMul(Ratios(l, "width_ratios", sh[2]), l["panel_width"])
MF_height_ratios(l, sh) == PyMul(Ratios(l, "height_ratios", sh[1]), l["panel_height"])
MF_xborder(l) == PyMul(Border(l, "left", "right"), l["panel_width"])
MF_yborder(l) == PyMul(Border(l, "top", "bottom"), l["panel_height"])
MF_wspace(l, sh) == PyMul(SpaceList(l, "wspace", sh[2]), l["panel_width"])
MF_hspace(l, sh) == PyMul(SpaceList(l, "hspace", sh[1]), l["panel_height"])

\* x[n] of makeFig's loop body: whether the index is in range
InRange(x, n) == n + 1 <= Len(x.items)

\* makeFig's loop body raises IndexError for cell (i, j)
CellRaises(l, sh, i, j) ==
    \/ ~InRange(MF_height_ratios(l, sh), i)
    \/ ~InRange(MF_width_ratios(l, sh), j)
    \/ ~InRange(MF_yborder(l), 0)
    \/ ~InRange(MF_xborder(l), 0)

\* a variant of bot that sums the heights of the rows before row i only
CellBot_rowsBefore(l, sh, fs, i) ==
    LET total_hspace == NpSumTo(MF_hspace(l, sh), i)
        total_heights == NpSumTo(MF_height_ratios(l, sh), i)
    IN fs[2] - MF_yborder(l).items[1] - total_hspace - total_heights

\* bot of makeFig, line 58
CellBot(l, sh, fs, i) ==
    LET total_hspace == NpSumTo(MF_hspace(l, sh), i)
        total_heights == NpSumTo(MF_height_ratios(l, sh), i + 1)
    IN fs[2] - MF_yborder(l).items[1] - total_hspace - total_heights

\* left of makeFig, line 59
CellLeft(l, sh, j) ==
    LET total_widths == NpSumTo(MF_width_ratios(l, sh), j)
        total_wspace == NpSumTo(MF_wspace(l, sh), j)
    IN MF_xborder(l).items[1] + total_widths + total_wspace

\* axdim of makeFig, lines 60-61: left, bottom, width, height, normalized
AxDim(l, sh, fs, i, j) ==
    [left |-> Frac(CellLeft(l, sh, j), fs[1]),
     bot |-> Frac(CellBot(l, sh, fs, i), fs[2]),
     width |-> Frac(MF_width_ratios(l, sh).items[j + 1], fs[1]),
     height |-> Frac(MF_height_ratios(l, sh).items[i + 1], fs[2])]

\* plt.Figure(figsize = figsize, **fargs), fargs = self.sg.fstyles['figure']
MPL_Figure == [fn |-> "Figure", se |-> "figure", cell |-> <<>>, kwargs |-> fstyles["figure"]]

\* the function _createAx hands to _setStyle for an element name
DrawFn(se_name) ==
    CASE se_name = "ticks" -> "tick_params"
      [] se_name = "axis" -> "set"
      [] se_name = "edges" -> "spines.set"
      [] se_name = "grid" -> "grid"
      [] se_name = "legend" -> "legend"

\* a variant of _setStyle that asks the registered element again
MPL_setStyle_requery(i, j, se_name) ==
    IF se_name \in DOMAIN elements /\ IsPanelSE(elements[se_name].kind)
    THEN {[fn |-> DrawFn(se_name), se |-> se_name, cell |-> <<i, j>>,
           kwargs |-> PanelSE_getStyles(elements[se_name].args, elements[se_name].rules,
                                        CtxAt(shape, i, j))]}
    ELSE {}

\* _setStyle(se_name, fn) of _createAx for cell (i, j): the calls of fn it
\* makes, each with its keywords
MPL_setStyle(i, j, se_name) ==
    (IF se_name \in DOMAIN astyles_all
     THEN {[fn |-> DrawFn(se_name), se |-> se_name, cell |-> <<i, j>>,
            kwargs |-> astyles_all[se_name]]}
     ELSE {})
    \cup
    (IF se_name \in DOMAIN astyles[<<i, j>>]
     THEN {[fn |-> DrawFn(se_name), se |-> se_name, cell |-> <<i, j>>,
            kwargs |-> astyles[<<i, j>>][se_name]]}
     ELSE {})

\* _createAx, lines 84-90: the style calls on the new axes (the call for
\* 'edges' is made once per spine, with the same keywords)
MPL_createAx(i, j) ==
    UNION {MPL_setStyle(i, j, se_name) : se_name \in {"ticks", "axis", "edges", "grid", "legend"}}

-----------------------------------------------------------------------------
(* Item-level configuration: VizArgs / VizSE *)

\* the loop of addPanelStyle: for val in panel_val: if val not in
\* self.panel_style[panel_prop]: self.panel_style[panel_prop][val] = args
RECURSIVE SetPanelVals(_, _, _)
SetPanelVals(tbl, vals, a) ==
    IF vals = <<>> THEN tbl
    ELSE SetPanelVals(IF Head(vals) \in DOMAIN tbl THEN tbl ELSE MapSet(tbl, Head(vals), a),
                      Tail(vals), a)

\* VizArgs.addPanelStyle / VizSE.addPanelStyle
VizArgs_addPanelStyle(ps, panel_prop, panel_val, a) ==
    IF a = EmptyMap THEN ps
    ELSE LET tbl == IF panel_prop \in DOMAIN ps THEN ps[panel_prop] ELSE EmptyMap
         IN MapSet(ps, panel_prop, SetPanelVals(tbl, panel_val, a))

\* VizArgs.rmPanelStyle: the value's entry is deleted, and the property's
\* table with it when that was its last entry
VizArgs_rmPanelStyle(ps, panel_prop, panel_val) ==
    IF panel_prop \in DOMAIN ps /\ panel_val \in DOMAIN ps[panel_prop]
    THEN IF DOMAIN ps[panel_prop] = {panel_val}
         THEN [x \in DOMAIN ps \ {panel_prop} |-> ps[x]]
         ELSE MapSet(ps, panel_prop,
                     [x \in DOMAIN ps[panel_prop] \ {panel_val} |-> ps[panel_prop][x]])
    ELSE ps

\* the test of isMatch for one attribute: membership when the attribute's
\* value is a list, equality otherwise
AttrMatches(prop_val, value) ==
    IF value.kind = "list"
    THEN \E n \in 1..Len(value.items) : value.items[n] = prop_val
    ELSE value.items[1] = prop_val

\* DataContainer.isMatch: False if a key of rm_attrs that the container has
\* matches, False if a key of in_attrs that the container has does not match,
\* True otherwise; a key the container does not have is passed over
DataContainer_isMatch(properties, in_attrs, rm_attrs) ==
    IF \E key \in DOMAIN rm_attrs :
          key \in DOMAIN properties /\ AttrMatches(properties[key], rm_attrs[key])
    THEN FALSE
    ELSE IF \E key \in DOMAIN in_attrs :
               key \in DOMAIN properties /\ ~AttrMatches(properties[key], in_attrs[key])
    THEN FALSE
    ELSE TRUE

\* VizArgs.addMatchRule(in_attrs, rm_attrs, plot_args): a rule whose
\* condition is isMatch(in_attrs, rm_attrs) of the item asked for
VizArgs_addMatchRule(rs, in_attrs, rm_attrs, plot_args) ==
    Append(rs, [cond |-> <<"_matchCondition">>, args |-> plot_args,
                in_attrs |-> in_attrs, rm_attrs |-> rm_attrs])

\* Annotation.__init__(self, args = None, **kwargs), called with the
\* positional arguments posargs: more than one is a TypeError; else the
\* defaults are args with 'text' = '' and 'pos' = (0, 0) (written 0) set
Annotation_init(posargs) ==
    IF Len(posargs) > 1 THEN [err |-> "TypeError", args |-> EmptyMap]
    ELSE [err |-> "none",
          args |-> MapSet(MapSet(IF posargs = <<>> THEN EmptyMap ELSE posargs[1],
                                 "text", 0), "pos", 0)]

\* PanelText.__init__(self, args = None, **kwargs):
\* super().__init__(args, kwargs), two positional arguments
PanelText_init(a, kwargs) == Annotation_init(<<a, kwargs>>)

\* ColLabel.__init__ and RowLabel.__init__: super().__init__(args, **kwargs),
\* then self.args['_idx'] = 1 and the position
Label_init(a, kwargs) ==
    LET r == PanelText_init(a, kwargs)
    IN IF r.err # "none" THEN r
       ELSE [err |-> "none", args |-> MapSet(MapSet(r.args, "_idx", 1), "pos", 1)]

\* ColLabel.getStyles and RowLabel.getStyles: PanelArgs.getStyles when
\* panel_i (ColLabel) or panel_j (RowLabel) equals self.args['_idx'], {} else
Label_getStyles(kd, a, rs, ts, sh, panel_i, panel_j) ==
    IF (IF kd = "ColLabel" THEN panel_i ELSE panel_j) = a["_idx"]
    THEN PanelArgs_getStyles(a, rs, ts, CtxAt(sh, panel_i, panel_j))
    ELSE EmptyMap

-----------------------------------------------------------------------------
(* DataGrid of data/data_grid.py.  The array is the sequence of its rows; a *)
(* panel is [id, len]: which Panel object it is, and how many data          *)
(* containers the Panel, a list, holds                                      *)

\* the panels rmPanels walks, in the order of np.nditer: all of them for
\* slc = None, else those at the cells of self.panels[slc]
DataGrid_getSlc(pn, cells) ==
    LET ncols == Len(pn[1])
        at(n) == <<((n - 1) \div ncols) + 1, ((n - 1) % ncols) + 1>>
    IN SelectSeq([n \in 1..(Len(pn) * ncols) |->
                     [cell |-> at(n), panel |-> pn[at(n)[1]][at(n)[2]]]],
                 LAMBDA x : x.cell \in cells)

\* self.panels == panel.item(): the Panel, a list, is taken as the array of
\* its len data containers and broadcast against the columns of the grid;
\* the shapes fit when len is the number of columns or 1, or the grid has
\* one column
EqBroadcasts(pn, panel) == panel.len = Len(pn[1]) \/ panel.len = 1 \/ Len(pn[1]) = 1

\* np.where(self.panels == panel.item()) when the shapes fit: every element
\* of the comparison is a Panel of the grid against a data container of the
\* panel, which is False, so no index is found
DataGrid_where(pn, panel) == {}

\* self.panels[panel_idx] = Panel() for the indices found
DataGrid_replace(pn, idx) ==
    [i \in 1..Len(pn) |->
        [j \in 1..Len(pn[i]) |-> IF <<i, j>> \in idx THEN [id |-> 0, len |-> 0]
                                 ELSE pn[i][j]]]

\* the rows that are not made of empty Panels only
NonEmptyRows(pn) ==
    SelectSeq(pn, LAMBDA row : ~(\A n \in 1..Len(row) : row[n].len = 0))

\* .T of a 2-D array
Transposed(pn) == [j \in 1..Len(pn[1]) |-> [i \in 1..Len(pn) |-> pn[i][j]]]

\* the second half of rmPanels: rows of empty Panels are dropped, the array
\* is transposed, the same is done to the columns, and it is transposed
\* back; an array left without rows is the empty array
DataGrid_resize(pn) ==
    IF NonEmptyRows(pn) = <<>> THEN <<>>
    ELSE IF NonEmptyRows(Transposed(NonEmptyRows(pn))) = <<>> THEN <<>>
    ELSE Transposed(NonEmptyRows(Transposed(NonEmptyRows(pn))))

\* the loop of rmPanels over the panels sq; fits says whether a comparison
\* of shapes that do not fit passes as 'nothing equal' (older numpy) or
\* raises (ValueError)
RECURSIVE DataGrid_rmLoop(_, _, _)
DataGrid_rmLoop(pn, sq, lenient) ==
    IF sq = <<>> THEN [err |-> "none", panels |-> pn]
    ELSE IF ~EqBroadcasts(pn, Head(sq).panel) /\ ~lenient
    THEN [err |-> "ValueError", panels |-> pn]
    ELSE DataGrid_rmLoop(DataGrid_replace(pn, IF EqBroadcasts(pn, Head(sq).panel)
                                              THEN DataGrid_where(pn, Head(sq).panel)
                                              ELSE {}),
                         Tail(sq), lenient)

\* DataGrid.rmPanels(slc)
DataGrid_rmPanels(pn, cells, lenient) ==
    LET r == DataGrid_rmLoop(pn, DataGrid_getSlc(pn, cells), lenient)
    IN IF r.err # "none" THEN r
       ELSE [err |-> "none", panels |-> DataGrid_resize(r.panels)]

-----------------------------------------------------------------------------
(* The inputs of the model *)

\* margins and spacing, in ratio units: 0, 0.05 and 0.2
MarginVals == {Scalar("float", 0), Scalar("float", Unit \div 20), Scalar("float", Unit \div 5)}

\* the sizes given to setAllMargins: those, and -0.05
MarginSizes == MarginVals \cup {Scalar("float", 0 - (Unit \div 20))}

\* panel sizes: the ints 1 and 3 and the float 3.0
PanelSizes == {Scalar("int", 1), Scalar("int", 3), Scalar("float", 3)}

\* ratio sequences of length n given to updateArgs: [1, 2, ..] as a list,
\* [1, 1, ..] and [1, 2, ..] as numpy arrays
RatioSeqs(n) ==
    {PyList([k \in 1..n |-> k * Unit]),
     NdArray([k \in 1..n |-> Unit]),
     NdArray([k \in 1..n |-> k * Unit])}

\* ratio sequences for n >= 2 columns that a caller should not give: an
\* array one short of the grid, and an array whose first ratio is 0
OddRatioSeqs(n) ==
    IF n < 2 THEN {}
    ELSE {NdArray([k \in 1..(n - 1) |-> Unit]),
          NdArray([k \in 1..n |-> IF k = 1 THEN 0 ELSE Unit])}

Keys == {"a", "b"}
DefaultVals == {1}
TagVals == {2, 4}
RuleVals == {3, 5}
PanelVals == {6}

\* the tags that may get an entry in type_style; "x" never has one
Tags == {"t", "u"}
TagLists == {<<>>, <<"t">>, <<"t", "u">>, <<"u", "t">>, <<"x", "t">>}

\* the named conditions of rules
Conds == {"c1", "c2"}

\* the grouping property of the panels and the values an item has for it
PanelProp == "p"
ItemVals == {"none", "x", "y"}

\* the classes of style_elements.py (with a type_style table) and of styles.py
ArgsKinds == {"StyleElement", "FigArgs", "PanelArgs", "VizArgs"}
SEKinds == {"FigSE", "PanelSE", "VizSE"}
VizKinds == {"VizArgs", "VizSE"}
\* the classes whose getStyles reads a tag list of the context
TagKinds == {"FigArgs", "PanelArgs", "VizArgs"}
Kinds == ArgsKinds \cup SEKinds

NoCtx == [called |-> FALSE, tags |-> <<>>, holds |-> {}, pprop |-> "none", pval |-> "none"]

\* the contexts an element of class kd is queried with: the tag list the
\* element reads from the context (dg.fig_type, the panel's axis_types, the
\* item's plot_types), the conditions that hold for it, and for an item its
\* panel's grouping property and its value of it ("none": it has none)
Contexts(kd) ==
    [called : {TRUE},
     tags : IF kd \in TagKinds THEN TagLists ELSE {<<>>},
     holds : SUBSET Conds,
     pprop : IF kd \in VizKinds THEN {PanelProp} ELSE {"none"},
     pval : IF kd \in VizKinds THEN ItemVals ELSE {"none"}]

\* getStyles of an element of class kd
GetStylesOf(kd, a, rs, ts, ps, c) ==
    CASE kd = "StyleElement" -> StyleElement_getStyles(a, rs, c)
      [] kd = "FigArgs" -> FigArgs_getStyles(a, rs, ts, c)
      [] kd = "PanelArgs" -> PanelArgs_getStyles(a, rs, ts, c)
      [] kd = "VizArgs" -> VizArgs_getStyles(a, rs, ts, ps, c)
      [] kd = "FigSE" -> FigSE_getStyles(a, rs, c)
      [] kd = "PanelSE" -> PanelSE_getStyles(a, rs, c)
      [] kd = "VizSE" -> VizSE_getStyles(a, rs, ps, c)

\* what getStyles of an element of class kd prints: a warning for every tag
\* of the context's list without an entry in type_style
WarningsOf(kd, ts, c) == IF kd \in TagKinds THEN TagWarnings(ts, c.tags) ELSE <<>>

-----------------------------------------------------------------------------
(* Style resolution on objects.  A dict or a list is an object of the heap, *)
(* known by its id (its position in heap); a value stored under a key is    *)
(* <<"int", n>>, an immutable number, or <<"ref", id>>, the list object id  *)
(* (a mutable value).  An element is the record of the ids of its dicts:    *)
(* args, the args of each rule, the entries of type_style and panel_style.  *)
(* These operators say which objects the methods read, create and write;    *)
(* the operators on mappings above say what the result is by value.         *)

IntVal(n) == <<"int", n>>
RefVal(id) == <<"ref", id>>
DictObj(m) == [type |-> "dict", m |-> m, v |-> 0]
ListObj(n) == [type |-> "list", m |-> EmptyMap, v |-> n]

\* the keys of a dict in the order copy.deepcopy walks them
KeySeq == <<"a", "b">>

\* the value-by-value copy of the entries of m under the keys ks: a number
\* is kept, a list is copied into a new object
RECURSIVE CopyValues(_, _, _, _)
CopyValues(h, m, ks, acc) ==
    IF ks = <<>> THEN [heap |-> h, m |-> acc]
    ELSE LET k == Head(ks)
         IN IF k \notin DOMAIN m THEN CopyValues(h, m, Tail(ks), acc)
            ELSE IF m[k][1] = "ref"
            THEN CopyValues(Append(h, h[m[k][2]]), m, Tail(ks),
                            MapSet(acc, k, RefVal(Len(h) + 1)))
            ELSE CopyValues(h, m, Tail(ks), MapSet(acc, k, m[k]))

\* a variant of the copy that hands out the dict itself: ret_args = self.args
Obj_deepcopy_none(h, id) == [heap |-> h, ret |-> id]

\* copy.deepcopy(self.args): a new dict whose values are copies
Obj_deepcopy(h, id) ==
    LET r == CopyValues(h, h[id].m, KeySeq, EmptyMap)
    IN [heap |-> Append(r.heap, DictObj(r.m)), ret |-> Len(r.heap) + 1]

\* target.update(source): the entries of source are stored in target, the
\* values by reference
Obj_update(h, target, source) == [h EXCEPT ![target].m = MapUpdate(@, h[source].m)]

\* StyleRule.__call__: the rule's own args dict, or a new empty dict
Obj_StyleRule_call(h, rule, c) ==
    IF \A n \in 1..Len(rule.cond) : rule.cond[n] \in c.holds
    THEN [heap |-> h, ret |-> rule.args]
    ELSE [heap |-> Append(h, DictObj(EmptyMap)), ret |-> Len(h) + 1]

\* for rule in self.rules: ret_args.update(rule(...)); FigSE and PanelSE skip
\* the update of an empty mapping, which would change nothing
RECURSIVE Obj_applyRules(_, _, _, _)
Obj_applyRules(h, ret_args, rs, c) ==
    IF rs = <<>> THEN h
    ELSE LET r == Obj_StyleRule_call(h, Head(rs), c)
         IN Obj_applyRules(Obj_update(r.heap, ret_args, r.ret), ret_args, Tail(rs), c)

\* for ft in tags: if ft in self.type_style: ret_args.update(self.type_style[ft])
RECURSIVE Obj_applyTags(_, _, _, _)
Obj_applyTags(h, ret_args, ts, tags) ==
    IF tags = <<>> THEN h
    ELSE Obj_applyTags(IF Head(tags) \in DOMAIN ts
                       THEN Obj_update(h, ret_args, ts[Head(tags)]) ELSE h,
                       ret_args, ts, Tail(tags))

\* ret_args.update(self.panel_style[panel_prop][panel_val]) when there is one
Obj_panelValue(h, ret_args, ps, c) ==
    IF c.pprop \in DOMAIN ps
    THEN IF c.pval # "none"
         THEN IF c.pval \in DOMAIN ps[c.pprop]
              THEN Obj_update(h, ret_args, ps[c.pprop][c.pval])
              ELSE h
         ELSE h
    ELSE h

\* a variant of getStyles that takes the rules off the element's list as it
\* applies them: while self.rules: rule = self.rules.pop(0) ...
Obj_getStyles_consuming(h, e, c) ==
    LET cp == Obj_deepcopy(h, e.args)
        h1 == Obj_applyRules(cp.heap, cp.ret, e.rules, c)
        h2 == IF e.kind \in TagKinds
              THEN Obj_applyTags(h1, cp.ret, e.type_style, c.tags) ELSE h1
        h3 == IF e.kind \in VizKinds
              THEN Obj_panelValue(h2, cp.ret, e.panel_style, c) ELSE h2
    IN [heap |-> h3, elem |-> [e EXCEPT !.rules = <<>>], ret |-> cp.ret]

\* getStyles of the element e: the heap and the element after the call, and
\* the id of the dict returned.  A deep copy of the defaults is updated with
\* the rules' dicts, then (FigArgs, PanelArgs, VizArgs) with the entries of
\* type_style for the context's tags, then (VizArgs, VizSE) with the
\* panel-value entry; no attribute of the element is assigned.
Obj_getStyles(h, e, c) ==
    LET cp == Obj_deepcopy(h, e.args)
        h1 == Obj_applyRules(cp.heap, cp.ret, e.rules, c)
        h2 == IF e.kind \in TagKinds
              THEN Obj_applyTags(h1, cp.ret, e.type_style, c.tags) ELSE h1
        h3 == IF e.kind \in VizKinds
              THEN Obj_panelValue(h2, cp.ret, e.panel_style, c) ELSE h2
    IN [heap |-> h3, elem |-> e, ret |-> cp.ret]

\* a value as the caller of a configuration method wrote it: a number, or a
\* new list holding it
Obj_literal(h, vk, n) ==
    IF vk = "list"
    THEN [heap |-> Append(h, ListObj(n)), val |-> RefVal(Len(h) + 1)]
    ELSE [heap |-> h, val |-> IntVal(n)]

\* StyleElement(): an element with empty defaults
Obj_init(kd) ==
    [heap |-> <<DictObj(EmptyMap)>>,
     elem |-> [kind |-> kd, args |-> 1, rules |-> <<>>, type_style |-> EmptyMap,
               panel_style |-> EmptyMap]]

\* elem.updateArgs({k: v}): self.args.update(new_args)
Obj_updateArgs(w, k, vk, n) ==
    LET v == Obj_literal(w.heap, vk, n)
    IN [heap |-> [v.heap EXCEPT ![w.elem.args].m = MapSet(@, k, v.val)], elem |-> w.elem]

\* elem.addRule(StyleRule(cond, {k: v})): the rule keeps the dict it is given
Obj_addRule(w, cond, k, vk, n) ==
    LET v == Obj_literal(w.heap, vk, n)
    IN [heap |-> Append(v.heap, DictObj(OneKey(k, v.val))),
        elem |-> [w.elem EXCEPT !.rules = Append(@, [cond |-> cond, args |-> Len(v.heap) + 1])]]

\* elem.addTypeStyle(t, {k: v}): self.type_style[t] = args
Obj_addTypeStyle(w, t, k, vk, n) ==
    LET v == Obj_literal(w.heap, vk, n)
    IN [heap |-> Append(v.heap, DictObj(OneKey(k, v.val))),
        elem |-> [w.elem EXCEPT !.type_style = MapSet(@, t, Len(v.heap) + 1)]]

\* elem.addPanelStyle(prop, val, {k: v}) on an element without an entry for
\* (prop, val): self.panel_style[prop][val] = args
Obj_addPanelStyle(w, prop, val, k, vk, n) ==
    LET v == Obj_literal(w.heap, vk, n)
        tbl == IF prop \in DOMAIN w.elem.panel_style THEN w.elem.panel_style[prop] ELSE EmptyMap
    IN [heap |-> Append(v.heap, DictObj(OneKey(k, v.val))),
        elem |-> [w.elem EXCEPT !.panel_style =
                     MapSet(@, prop, IF val \in DOMAIN tbl THEN tbl
                                     ELSE MapSet(tbl, val, Len(v.heap) + 1))]]

\* args.update(kwargs) on the dict d, for the keywords b = 2 (kw) or none
Obj_updateKwargs(h, d, kw) ==
    IF kw THEN [h EXCEPT ![d].m = MapSet(@, "b", IntVal(2))] ELSE h

\* E(args, **kwargs) where args is the dict d of the heap h, or E(**kwargs)
\* when d = 0: self.args = args if args is not None else {};
\* self.args.update(kwargs)
Obj_initWith(h, kd, d, kw) ==
    LET hp == IF d = 0 THEN Append(h, DictObj(EmptyMap)) ELSE h
        id == IF d = 0 THEN Len(h) + 1 ELSE d
    IN [heap |-> Obj_updateKwargs(hp, id, kw),
        elem |-> [kind |-> kd, args |-> id, rules |-> <<>>, type_style |-> EmptyMap,
                  panel_style |-> EmptyMap]]

\* elem.updateArgs(d, **kwargs); styles.py: new_args.update(kwargs), then
\* self.args.update(new_args); style_elements.py takes no keywords
Obj_updateArgsWith(w, d, kw) ==
    [heap |-> Obj_update(Obj_updateKwargs(w.heap, d, kw /\ w.elem.kind \in SEKinds),
                         w.elem.args, d),
     elem |-> w.elem]

\* elem.addRule(StyleRule(cond, d, **kwargs)): self.args = args;
\* self.args.update(kwargs)
Obj_addRuleWith(w, cond, d, kw) ==
    [heap |-> Obj_updateKwargs(w.heap, d, kw),
     elem |-> [w.elem EXCEPT !.rules = Append(@, [cond |-> cond, args |-> d])]]

\* elem.addTypeStyle(t, d, **kwargs): args.update(kwargs);
\* self.type_style[t] = args
Obj_addTypeStyleWith(w, t, d, kw) ==
    [heap |-> Obj_updateKwargs(w.heap, d, kw),
     elem |-> [w.elem EXCEPT !.type_style = MapSet(@, t, d)]]

\* elem.addPanelStyle(prop, val, d, **kwargs): args.update(kwargs); nothing
\* more if args is empty; else the property's table is made if there is
\* none, and d becomes the entry of val unless val has one
Obj_addPanelStyleWith(w, prop, val, d, kw) ==
    LET h == Obj_updateKwargs(w.heap, d, kw)
        tbl == IF prop \in DOMAIN w.elem.panel_style THEN w.elem.panel_style[prop]
               ELSE EmptyMap
    IN IF h[d].m = EmptyMap THEN [heap |-> h, elem |-> w.elem]
       ELSE [heap |-> h,
             elem |-> [w.elem EXCEPT !.panel_style =
                          MapSet(@, prop, IF val \in DOMAIN tbl THEN tbl
                                          ELSE MapSet(tbl, val, d))]]

\* the dict id by value: a list counts by its content
Deref(h, id) ==
    [k \in DOMAIN h[id].m |->
        IF h[id].m[k][1] = "ref" THEN <<"list", h[h[id].m[k][2]].v>> ELSE h[id].m[k]]

-----------------------------------------------------------------------------
(* The figure build: Layout configuration, getStyleGrid, makeFig *)

\* no StyleGrid yet
NoGrid == [lo |-> EmptyMap, fstyles |-> EmptyMap, astyles_all |-> EmptyMap,
           astyles |-> EmptyMap]

\* the StyleGrid the backend holds
TheGrid == [lo |-> lo, fstyles |-> fstyles, astyles_all |-> astyles_all,
            astyles |-> astyles]

LayoutIdle ==
    /\ largs = EmptyMap /\ pc = "off" /\ lo = EmptyMap /\ figsize = <<>>
    /\ axes = EmptyMap /\ ci = 0 /\ cj = 0 /\ err = "none" /\ shape = <<1, 1>>
    /\ errkey = "none" /\ lrules = <<>> /\ elements = EmptyMap
    /\ fstyles = EmptyMap /\ astyles_all = EmptyMap /\ astyles = EmptyMap
    /\ drawn = {} /\ late = 0 /\ snap = NoGrid

StyleIdle ==
    /\ kind = "none" /\ args = EmptyMap /\ rules = <<>> /\ type_style = EmptyMap
    /\ panel_style = EmptyMap /\ ctx = NoCtx /\ ret = EmptyMap /\ warned = <<>>
    /\ live = {}

NoElem == [kind |-> "none", args |-> 0, rules |-> <<>>, type_style |-> EmptyMap,
           panel_style |-> EmptyMap]

ObjIdle ==
    /\ heap = <<>> /\ oelem = NoElem /\ octx = NoCtx /\ ores = <<>> /\ oval = <<>>
    /\ ntouch = 0

DataIdle == added = <<>> /\ panels = <<>>

\* an element as its constructor leaves it
NewElement(kd) == [kind |-> kd, args |-> EmptyMap, rules |-> <<>>]

\* a grid, a Layout without arguments and a FigSE, both registered
InitLayout ==
    /\ shape \in (1..MaxRows) \X (1..MaxCols)
    /\ largs = EmptyMap
    /\ pc = "config"
    /\ lo = EmptyMap
    /\ figsize = <<>>
    /\ axes = EmptyMap
    /\ ci = 0
    /\ cj = 0
    /\ err = "none"
    /\ errkey = "none"
    /\ lrules = <<>>
    /\ elements = OneKey("figure", NewElement("FigSE"))
    /\ fstyles = EmptyMap /\ astyles_all = EmptyMap /\ astyles = EmptyMap
    /\ drawn = {}
    /\ late = 0
    /\ snap = NoGrid
    /\ StyleIdle
    /\ ObjIdle
    /\ DataIdle

SetAllMargins ==
    /\ pc = "config"
    /\ \E m \in MarginSizes : largs' = Layout_setAllMargins(largs, m).args
    /\ UNCHANGED <<shape, pc, lo, figsize, axes, ci, cj, err, errkey, lrules, elements,
                   gridVars, drawn, late, snap, styleVars, objVars, dataVars>>

SetSquarePanels ==
    /\ pc = "config"
    /\ \E p \in PanelSizes : largs' = Layout_setSquarePanels(largs, p).args
    /\ UNCHANGED <<shape, pc, lo, figsize, axes, ci, cj, err, errkey, lrules, elements,
                   gridVars, drawn, late, snap, styleVars, objVars, dataVars>>

SetPadding ==
    /\ pc = "config"
    /\ \E p \in MarginVals : largs' = Layout_setPadding(largs, p).args
    /\ UNCHANGED <<shape, pc, lo, figsize, axes, ci, cj, err, errkey, lrules, elements,
                   gridVars, drawn, late, snap, styleVars, objVars, dataVars>>

\* Layout.updateArgs(height_ratios = r) and Layout.updateArgs(width_ratios = r)
SetRatios ==
    /\ pc = "config"
    /\ \/ \E r \in RatioSeqs(shape[1]) :
            largs' = Layout_updateArgs(largs, << <<"height_ratios", r>> >>).args
       \/ \E r \in RatioSeqs(shape[2]) \cup OddRatioSeqs(shape[2]) :
            largs' = Layout_updateArgs(largs, << <<"width_ratios", r>> >>).args
    /\ UNCHANGED <<shape, pc, lo, figsize, axes, ci, cj, err, errkey, lrules, elements,
                   gridVars, drawn, late, snap, styleVars, objVars, dataVars>>

\* StyleManager.getStyleGrid: the loop over the registered elements, with
\* sg.setFigStyle('layout', elm.getStyles(dg)) for the layout element.  An
\* exception of Layout.getStyles leaves the caller without a StyleGrid.
GetStyleGrid ==
    /\ pc = "config"
    /\ LET r == Layout_getStyles(largs, lrules, FigCtx)
           sg == StyleManager_getStyleGrid(elements, shape)
       IN IF r.err # "none"
          THEN /\ pc' = "error"
               /\ err' = r.err
               /\ errkey' \in r.keys
               /\ UNCHANGED <<lo, gridVars, snap>>
          ELSE /\ pc' = "styled"
               /\ lo' = StyleGrid_set(EmptyMap, "layout", r.styles)["layout"]
               /\ fstyles' = sg.fstyles
               /\ astyles_all' = sg.astyles_all
               /\ astyles' = sg.astyles
               /\ snap' = [lo |-> lo', fstyles |-> fstyles', astyles_all |-> astyles_all',
                           astyles |-> astyles']
               /\ UNCHANGED <<err, errkey>>
    /\ UNCHANGED <<shape, largs, figsize, axes, ci, cj, lrules, elements, drawn, late,
                   styleVars, objVars, dataVars>>

\* makeFig, lines 17-41: the two entries of sg.fstyles, the figure size, the
\* Figure and the scaled sequences
MakeFig ==
    /\ pc = "styled"
    /\ IF "figure" \notin DOMAIN fstyles
       THEN /\ pc' = "error"
            /\ err' = "KeyError"
            /\ UNCHANGED <<figsize, drawn>>
       ELSE IF FigsizeRaises(lo, shape)
       THEN /\ pc' = "error"
            /\ err' = "TypeError"
            /\ UNCHANGED <<figsize, drawn>>
       ELSE /\ pc' = "cells"
            /\ err' = err
            /\ figsize' = MPL_getFigsize(lo, shape)
            /\ drawn' = drawn \cup {MPL_Figure}
    /\ ci' = 0
    /\ cj' = 0
    /\ UNCHANGED <<shape, largs, lo, axes, errkey, lrules, elements, gridVars, late, snap,
                   styleVars, objVars, dataVars>>

\* makeFig, lines 44-66: one pass of the loop body, for cell (ci, cj), with
\* its call of _createAx
CreateAx ==
    /\ pc = "cells"
    /\ IF CellRaises(lo, shape, ci, cj)
       THEN /\ pc' = "error"
            /\ err' = "IndexError"
            /\ UNCHANGED <<axes, ci, cj, drawn>>
       ELSE /\ axes' = MapSet(axes, <<ci, cj>>, AxDim(lo, shape, figsize, ci, cj))
            /\ drawn' = drawn \cup MPL_createAx(ci, cj)
            /\ err' = err
            /\ IF cj + 1 < shape[2]
               THEN /\ cj' = cj + 1 /\ ci' = ci /\ pc' = pc
               ELSE IF ci + 1 < shape[1]
               THEN /\ cj' = 0 /\ ci' = ci + 1 /\ pc' = pc
               ELSE /\ pc' = "done" /\ UNCHANGED <<ci, cj>>
    /\ UNCHANGED <<shape, largs, lo, figsize, errkey, lrules, elements, gridVars, late,
                   snap, styleVars, objVars, dataVars>>

NextLayout ==
    \/ SetAllMargins
    \/ SetSquarePanels
    \/ SetPadding
    \/ SetRatios
    \/ GetStyleGrid
    \/ MakeFig
    \/ CreateAx

SpecLayout == InitLayout /\ [][NextLayout]_vars

-----------------------------------------------------------------------------
(* A Layout element on its own: its keys are set one at a time, a rule is  *)
(* added, getStyles is called                                              *)

\* Layout of styles.py and Layout of style_elements.py
LayoutKinds == {"Layout", "style_elements.Layout"}

\* the keys getStyles of the class requires
RequiredOf(kd) ==
    IF kd = "Layout" THEN NEED_KEYS ELSE {REQUIRED_KEYS[n] : n \in DOMAIN REQUIRED_KEYS}

\* the value every key is given: 0.2
KeyVal == Scalar("float", Unit \div 5)

InitKeys ==
    /\ kind \in LayoutKinds
    /\ largs = EmptyMap
    /\ lrules = <<>>
    /\ pc = "config"
    /\ err = "none"
    /\ errkey = "none"
    /\ ret = EmptyMap
    /\ shape = <<1, 1>>
    /\ lo = EmptyMap /\ figsize = <<>> /\ axes = EmptyMap /\ ci = 0 /\ cj = 0
    /\ elements = EmptyMap
    /\ fstyles = EmptyMap /\ astyles_all = EmptyMap /\ astyles = EmptyMap
    /\ drawn = {} /\ late = 0 /\ snap = NoGrid
    /\ args = EmptyMap /\ rules = <<>> /\ type_style = EmptyMap
    /\ panel_style = EmptyMap /\ ctx = NoCtx /\ warned = <<>> /\ live = {}
    /\ ObjIdle
    /\ DataIdle

\* updateArgs(k = 0.2) for one required key k
KeysUpdateArgs ==
    /\ pc = "config"
    /\ \E k \in RequiredOf(kind) :
          largs' = IF kind = "Layout"
                   THEN Layout_updateArgs(largs, << <<k, KeyVal>> >>).args
                   ELSE MapUpdate(largs, OneKey(k, KeyVal))
    /\ UNCHANGED <<shape, pc, lo, figsize, axes, ci, cj, err, errkey, lrules, elements,
                   gridVars, drawn, late, snap, styleVars, objVars, dataVars>>

\* addRule(StyleRule(lambda dg: True, {'top': 0.2}))
KeysAddRule ==
    /\ pc = "config"
    /\ Len(lrules) < 1
    /\ lrules' = Append(lrules, [cond |-> <<"always">>, args |-> OneKey("top", KeyVal)])
    /\ UNCHANGED <<shape, largs, pc, lo, figsize, axes, ci, cj, err, errkey, elements,
                   gridVars, drawn, late, snap, styleVars, objVars, dataVars>>

\* getStyles(dg) of the Layout
KeysGetStyles ==
    /\ pc = "config"
    /\ LET r == IF kind = "Layout"
                THEN Layout_getStyles(largs, lrules, FigCtx)
                ELSE ArgsLayout_getStyles(largs, lrules, EmptyMap, FigCtx)
       IN /\ pc' = IF r.err # "none" THEN "error" ELSE "queried"
          /\ err' = r.err
          /\ IF r.err # "none" THEN errkey' \in r.keys ELSE errkey' = errkey
          /\ ret' = r.styles
    /\ UNCHANGED <<shape, largs, lo, figsize, axes, ci, cj, lrules, elements, gridVars,
                   drawn, late, snap, kind, args, rules, type_style, panel_style, ctx,
                   warned, live, objVars, dataVars>>

\* the calls updateArgs(k = 0.2, foo = 1) and updateArgs(foo = 1, k = 0.2) of
\* styles.py's Layout: 'foo' is not a layout key
BadCalls == UNION {{ << <<k, KeyVal>>, <<"foo", 1>> >>, << <<"foo", 1>>, <<k, KeyVal>> >> } :
                     k \in NEED_KEYS}

\* updateArgs with a key that is not a layout key: the ValueError leaves the
\* call, the element keeps what the loop stored before it
KeysUpdateMany ==
    /\ pc = "config"
    /\ kind = "Layout"
    /\ \E new_args \in BadCalls :
          LET r == Layout_updateArgs(largs, new_args)
          IN /\ largs' = r.args
             /\ err' = r.err
             /\ pc' = IF r.err # "none" THEN "rejected" ELSE pc
    /\ UNCHANGED <<shape, lo, figsize, axes, ci, cj, errkey, lrules, elements,
                   gridVars, drawn, late, snap, styleVars, objVars, dataVars>>

NextKeys ==
    \/ KeysUpdateArgs
    \/ KeysUpdateMany
    \/ KeysAddRule
    \/ KeysGetStyles

SpecKeys == InitKeys /\ [][NextKeys]_vars

-----------------------------------------------------------------------------
(* The manager: elements are registered and configured, getStyleGrid is    *)
(* called, the backend builds the figure from the StyleGrid; the elements  *)
(* may be configured further while it does                                 *)

\* the classes of the registered elements
ElementKinds == {"FigSE", "Ticks", "Legend"}

\* the key given to updateArgs: the legend's slc_key, 'a' for the others
ElemKeys(kd) == IF kd = "Legend" THEN {"_slc"} ELSE {"a"}

\* Layout(); setAllMargins(0.2); setPadding(0.05); setSquarePanels(3)
ManagerLayout ==
    Layout_setSquarePanels(
        Layout_setPadding(
            Layout_setAllMargins(EmptyMap, Scalar("float", Unit \div 5)).args,
            Scalar("float", Unit \div 20)).args,
        Scalar("int", 3)).args

\* a grid, the layout above registered, no other element
InitManager ==
    /\ shape \in (1..MaxGrid) \X (1..MaxGrid)
    /\ largs = ManagerLayout
    /\ pc = "config"
    /\ lo = EmptyMap /\ figsize = <<>> /\ axes = EmptyMap /\ ci = 0 /\ cj = 0
    /\ err = "none" /\ errkey = "none" /\ lrules = <<>>
    /\ elements = EmptyMap
    /\ fstyles = EmptyMap /\ astyles_all = EmptyMap /\ astyles = EmptyMap
    /\ drawn = {} /\ late = 0 /\ snap = NoGrid
    /\ StyleIdle
    /\ ObjIdle
    /\ DataIdle

\* a configuration call: before getStyleGrid, or after it returned and
\* before the backend's makeFig (one call, which the caller cannot interleave)
ConfigCall ==
    \/ pc = "config" /\ late' = late
    \/ pc = "styled" /\ late < MaxLate /\ late' = late + 1

\* manager.addElement(cls()): the element is stored under its name
MgrAddElement ==
    /\ ConfigCall
    /\ \E kd \in ElementKinds :
          elements' = StyleManager_addElement(elements, <<NewElement(kd)>>)
    /\ UNCHANGED <<shape, largs, pc, lo, figsize, axes, ci, cj, err, errkey, lrules,
                   gridVars, drawn, snap, styleVars, objVars, dataVars>>

\* element.updateArgs(k = 1)
MgrUpdateArgs ==
    /\ ConfigCall
    /\ \E name \in DOMAIN elements :
          \E k \in ElemKeys(elements[name].kind) :
             elements' = [elements EXCEPT ![name].args = MapUpdate(@, OneKey(k, 1))]
    /\ UNCHANGED <<shape, largs, pc, lo, figsize, axes, ci, cj, err, errkey, lrules,
                   gridVars, drawn, snap, styleVars, objVars, dataVars>>

\* element.addRule(StyleRule(lambda dg: True, {'b': 3})), on a figure-level
\* element without rules
MgrAddRule ==
    /\ ConfigCall
    /\ \E name \in DOMAIN elements :
          /\ IsFigSE(elements[name].kind)
          /\ elements[name].rules = <<>>
          /\ elements' = [elements EXCEPT ![name].rules =
                             Append(@, [cond |-> <<"always">>, args |-> OneKey("b", 3)])]
    /\ UNCHANGED <<shape, largs, pc, lo, figsize, axes, ci, cj, err, errkey, lrules,
                   gridVars, drawn, snap, styleVars, objVars, dataVars>>

\* element.rmRule(rule) for a rule of the element
MgrRmRule ==
    /\ ConfigCall
    /\ \E name \in DOMAIN elements :
          \E n \in DOMAIN elements[name].rules :
             elements' = [elements EXCEPT ![name].rules =
                             SubSeq(@, 1, n - 1) \o SubSeq(@, n + 1, Len(@))]
    /\ UNCHANGED <<shape, largs, pc, lo, figsize, axes, ci, cj, err, errkey, lrules,
                   gridVars, drawn, snap, styleVars, objVars, dataVars>>

\* Ticks.setDefault, on a Ticks element without rules: labelbottom = False
\* except in the last row, labelleft = False except in the first column
TicksSetDefault ==
    /\ ConfigCall
    /\ "ticks" \in DOMAIN elements
    /\ elements["ticks"].rules = <<>>
    /\ elements' = [elements EXCEPT !["ticks"].rules = Ticks_setDefault(@)]
    /\ UNCHANGED <<shape, largs, pc, lo, figsize, axes, ci, cj, err, errkey, lrules,
                   gridVars, drawn, snap, styleVars, objVars, dataVars>>

\* Legend.setVisiblePanels((0, 0)), on a Legend element without rules
LegendSetVisiblePanels ==
    /\ ConfigCall
    /\ "legend" \in DOMAIN elements
    /\ elements["legend"].rules = <<>>
    /\ elements' = [elements EXCEPT !["legend"].rules =
                       Append(@, [cond |-> <<"visibleCondition">>,
                                  args |-> OneKey("visible", 1)])]
    /\ UNCHANGED <<shape, largs, pc, lo, figsize, axes, ci, cj, err, errkey, lrules,
                   gridVars, drawn, snap, styleVars, objVars, dataVars>>

NextManager ==
    \/ MgrAddElement
    \/ MgrUpdateArgs
    \/ MgrAddRule
    \/ MgrRmRule
    \/ TicksSetDefault
    \/ LegendSetVisiblePanels
    \/ GetStyleGrid
    \/ MakeFig
    \/ CreateAx

SpecManager == InitManager /\ [][NextManager]_vars

-----------------------------------------------------------------------------
(* The manager's table of elements: configured elements are added, one by  *)
(* one or as a list, then getStyleGrid is called                           *)

\* the elements the caller builds: cls(a = v), and Ticks(a = v) after
\* setDefault
RegElements ==
    {[kind |-> kd, args |-> OneKey("a", v), rules |-> <<>>] :
        kd \in ElementKinds, v \in {1, 2}}
    \cup {[kind |-> "Ticks", args |-> OneKey("a", v), rules |-> Ticks_setDefault(<<>>)] :
            v \in {1, 2}}

InitRegistry ==
    /\ shape \in (1..MaxGrid) \X (1..MaxGrid)
    /\ largs = ManagerLayout
    /\ pc = "config"
    /\ lo = EmptyMap /\ figsize = <<>> /\ axes = EmptyMap /\ ci = 0 /\ cj = 0
    /\ err = "none" /\ errkey = "none" /\ lrules = <<>>
    /\ elements = EmptyMap
    /\ fstyles = EmptyMap /\ astyles_all = EmptyMap /\ astyles = EmptyMap
    /\ drawn = {} /\ late = 0 /\ snap = NoGrid
    /\ StyleIdle
    /\ ObjIdle
    /\ DataIdle

\* manager.addElement(se)
RegAddElement ==
    /\ pc = "config"
    /\ Len(added) < MaxAdds
    /\ \E se \in RegElements :
          /\ elements' = StyleManager_addElement(elements, <<se>>)
          /\ added' = Append(added, se)
    /\ UNCHANGED <<shape, largs, pc, lo, figsize, axes, ci, cj, err, errkey, lrules,
                   gridVars, drawn, late, snap, styleVars, objVars, panels>>

\* manager.addElement([se1, se2])
RegAddElementList ==
    /\ pc = "config"
    /\ Len(added) + 1 < MaxAdds
    /\ \E se1 \in RegElements, se2 \in RegElements :
          /\ elements' = StyleManager_addElement(elements, <<se1, se2>>)
          /\ added' = added \o <<se1, se2>>
    /\ UNCHANGED <<shape, largs, pc, lo, figsize, axes, ci, cj, err, errkey, lrules,
                   gridVars, drawn, late, snap, styleVars, objVars, panels>>

NextRegistry ==
    \/ RegAddElement
    \/ RegAddElementList
    \/ GetStyleGrid

SpecRegistry == InitRegistry /\ [][NextRegistry]_vars

-----------------------------------------------------------------------------
(* A DataGrid: a 2-D array of Panel objects, then one call of rmPanels *)

\* how many data containers a panel may hold
PanelLens == {0, 1, 2}

\* the arrays of Panel objects of a shape, each Panel an object of its own
GridsOf(nrows, ncols) ==
    {[i \in 1..nrows |-> [j \in 1..ncols |->
         [id |-> (i - 1) * ncols + j, len |-> f[<<i, j>>]]]] :
       f \in [(1..nrows) \X (1..ncols) -> PanelLens]}

\* the cells slc selects: all (None), a row (slice(i, i + 1)), or one cell
\* ((slice(i, i + 1), slice(j, j + 1)))
Slices(pn) ==
    LET all == (1..Len(pn)) \X (1..Len(pn[1]))
    IN {all} \cup {{c \in all : c[1] = i} : i \in 1..Len(pn)} \cup {{c} : c \in all}

InitGrid ==
    /\ \E nrows \in 1..MaxGrid, ncols \in 1..MaxGrid : panels \in GridsOf(nrows, ncols)
    /\ added = <<>>
    /\ largs = EmptyMap /\ pc = "grid" /\ lo = EmptyMap /\ figsize = <<>>
    /\ axes = EmptyMap /\ ci = 0 /\ cj = 0 /\ err = "none" /\ shape = <<1, 1>>
    /\ errkey = "none" /\ lrules = <<>> /\ elements = EmptyMap
    /\ fstyles = EmptyMap /\ astyles_all = EmptyMap /\ astyles = EmptyMap
    /\ drawn = {} /\ late = 0 /\ snap = NoGrid
    /\ StyleIdle
    /\ ObjIdle

\* dg.rmPanels(slc) for the cells slc selects
RmPanelsOf(cells) ==
    /\ pc = "grid"
    /\ \E lenient \in BOOLEAN :
          LET r == DataGrid_rmPanels(panels, cells, lenient)
          IN /\ err' = r.err
             /\ pc' = IF r.err # "none" THEN "error" ELSE "removed"
             /\ panels' = r.panels
    /\ UNCHANGED <<shape, largs, lo, figsize, axes, ci, cj, errkey, lrules, elements,
                   gridVars, drawn, late, snap, styleVars, objVars, added>>

RmPanels == pc = "grid" /\ \E cells \in Slices(panels) : RmPanelsOf(cells)

NextGrid ==
    \/ RmPanels

SpecGrid == InitGrid /\ [][NextGrid]_vars

-----------------------------------------------------------------------------
(* A Ticks element on a grid: its defaults are set, setDefault is called,  *)
(* then one panel is queried                                               *)

\* the keys of the defaults: a key of the caller's, and labelbottom
TickKeys == {"a", "labelbottom"}

InitTicks ==
    /\ shape \in (1..MaxRows) \X (1..MaxCols)
    /\ kind = "Ticks"
    /\ args = EmptyMap /\ rules = <<>> /\ type_style = EmptyMap
    /\ panel_style = EmptyMap /\ ctx = NoCtx /\ ret = EmptyMap /\ warned = <<>>
    /\ live = {}
    /\ largs = EmptyMap /\ pc = "config" /\ lo = EmptyMap /\ figsize = <<>>
    /\ axes = EmptyMap /\ ci = 0 /\ cj = 0 /\ err = "none"
    /\ errkey = "none" /\ lrules = <<>> /\ elements = EmptyMap
    /\ fstyles = EmptyMap /\ astyles_all = EmptyMap /\ astyles = EmptyMap
    /\ drawn = {} /\ late = 0 /\ snap = NoGrid
    /\ ObjIdle
    /\ DataIdle

\* ticks.updateArgs({k: True})
TicksUpdateArgs ==
    /\ ~ctx.called
    /\ \E k \in TickKeys : args' = MapUpdate(args, OneKey(k, 1))
    /\ UNCHANGED <<kind, rules, type_style, panel_style, ctx, ret, warned, live,
                   layoutVars, objVars, dataVars>>

\* ticks.setDefault()
TicksSetDefaultAgain ==
    /\ ~ctx.called
    /\ Len(rules) < 2 * MaxDefault
    /\ rules' = Ticks_setDefault(rules)
    /\ UNCHANGED <<kind, args, type_style, panel_style, ctx, ret, warned, live,
                   layoutVars, objVars, dataVars>>

\* ticks.getStyles(dg, i, j) for a panel of the grid
TicksGetStyles ==
    /\ ~ctx.called
    /\ \E i \in 0..(shape[1] - 1), j \in 0..(shape[2] - 1) :
          /\ ci' = i /\ cj' = j
          /\ ctx' = CtxAt(shape, i, j)
          /\ ret' = PanelSE_getStyles(args, rules, CtxAt(shape, i, j))
    /\ UNCHANGED <<shape, largs, pc, lo, figsize, axes, err, errkey, lrules, elements,
                   gridVars, drawn, late, snap, kind, args, rules, type_style,
                   panel_style, warned, live, objVars, dataVars>>

NextTicks ==
    \/ TicksUpdateArgs
    \/ TicksSetDefaultAgain
    \/ TicksGetStyles

SpecTicks == InitTicks /\ [][NextTicks]_vars

-----------------------------------------------------------------------------
(* The panel-style table of an item-level element under addPanelStyle and  *)
(* rmPanelStyle                                                            *)

\* the panel properties, the lists of values and the style mappings of the
\* calls; a value that is not a list is the list of that one value
PanelProps == {"p", "q"}
PanelValLists == {<<>>, <<"x">>, <<"y">>, <<"x", "y">>}
PanelArgs == {EmptyMap} \cup {OneKey("a", v) : v \in {6, 7}}

InitPanel ==
    /\ kind \in VizKinds
    /\ args = EmptyMap /\ rules = <<>> /\ type_style = EmptyMap
    /\ panel_style = EmptyMap /\ ctx = NoCtx /\ ret = EmptyMap /\ warned = <<>>
    /\ live = {}
    /\ LayoutIdle
    /\ ObjIdle
    /\ DataIdle

\* addPanelStyle(panel_prop, panel_val, args)
PanelAddPanelStyle ==
    /\ \E panel_prop \in PanelProps, panel_val \in PanelValLists, a \in PanelArgs :
          panel_style' = VizArgs_addPanelStyle(panel_style, panel_prop, panel_val, a)
    /\ UNCHANGED <<kind, args, rules, type_style, ctx, ret, warned, live, layoutVars, objVars, dataVars>>

\* rmPanelStyle(panel_prop, panel_val); VizSE of styles.py has no rmPanelStyle
PanelRmPanelStyle ==
    /\ kind = "VizArgs"
    /\ \E panel_prop \in PanelProps, panel_val \in {"x", "y"} :
          panel_style' = VizArgs_rmPanelStyle(panel_style, panel_prop, panel_val)
    /\ UNCHANGED <<kind, args, rules, type_style, ctx, ret, warned, live, layoutVars, objVars, dataVars>>

NextPanel ==
    \/ PanelAddPanelStyle
    \/ PanelRmPanelStyle

SpecPanel == InitPanel /\ [][NextPanel]_vars

-----------------------------------------------------------------------------
(* An item-level element with a match rule, queried for an item *)

\* the properties an item may have, with their values
PropNames == {"s", "u"}
ItemProps == UNION {[ks -> {1, 2}] : ks \in SUBSET PropNames}

\* the attribute mappings of a match rule: a value or a list of values for
\* some of the properties
AttrMaps == UNION {[ks -> {Scalar("int", 1), PyList(<<1, 2>>)}] : ks \in SUBSET PropNames}

\* the context of a query for an item with the properties props, under the
\* element's rules
MatchCtx(props, rs) ==
    [called |-> TRUE, tags |-> <<>>,
     holds |-> {"_matchCondition" : n \in {m \in 1..Len(rs) :
                    DataContainer_isMatch(props, rs[m].in_attrs, rs[m].rm_attrs)}},
     pprop |-> "none", pval |-> "none", props |-> props]

InitMatch ==
    /\ kind = "VizArgs"
    /\ args = EmptyMap /\ rules = <<>> /\ type_style = EmptyMap
    /\ panel_style = EmptyMap /\ ctx = NoCtx /\ ret = EmptyMap /\ warned = <<>>
    /\ live = {}
    /\ LayoutIdle
    /\ ObjIdle
    /\ DataIdle

\* elem.updateArgs({'a': 1})
MatchUpdateArgs ==
    /\ ~ctx.called
    /\ args' = MapUpdate(args, OneKey("a", 1))
    /\ UNCHANGED <<kind, rules, type_style, panel_style, ctx, ret, warned, live,
                   layoutVars, objVars, dataVars>>

\* elem.addMatchRule(in_attrs, rm_attrs, {'c': 5}), once
MatchAddMatchRule ==
    /\ ~ctx.called
    /\ rules = <<>>
    /\ \E in_attrs \in AttrMaps, rm_attrs \in AttrMaps :
          rules' = VizArgs_addMatchRule(rules, in_attrs, rm_attrs, OneKey("c", 5))
    /\ UNCHANGED <<kind, args, type_style, panel_style, ctx, ret, warned, live,
                   layoutVars, objVars, dataVars>>

\* elem.getStyles(dg, i, j, k) for an item without plot types
MatchGetStyles ==
    /\ ~ctx.called
    /\ \E props \in ItemProps :
          /\ ctx' = MatchCtx(props, rules)
          /\ ret' = VizArgs_getStyles(args, rules, type_style, panel_style,
                                      MatchCtx(props, rules))
    /\ UNCHANGED <<kind, args, rules, type_style, panel_style, warned, live,
                   layoutVars, objVars, dataVars>>

NextMatch ==
    \/ MatchUpdateArgs
    \/ MatchAddMatchRule
    \/ MatchGetStyles

SpecMatch == InitMatch /\ [][NextMatch]_vars

-----------------------------------------------------------------------------
(* A column or row label is built for a grid *)

LabelKinds == {"ColLabel", "RowLabel"}

\* the mapping the caller passes as args
LabelArgs == {EmptyMap, OneKey("a", 1), OneKey("text", 7), OneKey("_idx", 0)}

\* before the constructor call: args is the caller's mapping
InitLabel ==
    /\ kind \in LabelKinds
    /\ shape \in (1..MaxRows) \X (1..MaxCols)
    /\ args \in LabelArgs
    /\ pc = "config" /\ err = "none"
    /\ rules = <<>> /\ type_style = EmptyMap
    /\ panel_style = EmptyMap /\ ctx = NoCtx /\ ret = EmptyMap /\ warned = <<>>
    /\ live = {}
    /\ largs = EmptyMap /\ lo = EmptyMap /\ figsize = <<>>
    /\ axes = EmptyMap /\ ci = 0 /\ cj = 0
    /\ errkey = "none" /\ lrules = <<>> /\ elements = EmptyMap
    /\ fstyles = EmptyMap /\ astyles_all = EmptyMap /\ astyles = EmptyMap
    /\ drawn = {} /\ late = 0 /\ snap = NoGrid
    /\ ObjIdle
    /\ DataIdle

\* ColLabel(args) or RowLabel(args): the label's defaults, or the error
LabelConstruct ==
    /\ pc = "config"
    /\ LET r == Label_init(args, EmptyMap)
       IN /\ err' = r.err
          /\ pc' = IF r.err # "none" THEN "error" ELSE "built"
          /\ args' = IF r.err # "none" THEN args ELSE r.args
    /\ UNCHANGED <<shape, largs, lo, figsize, axes, ci, cj, errkey, lrules, elements,
                   gridVars, drawn, late, snap, kind, rules, type_style, panel_style,
                   ctx, ret, warned, live, objVars, dataVars>>

NextLabel ==
    \/ LabelConstruct

SpecLabel == InitLabel /\ [][NextLabel]_vars

-----------------------------------------------------------------------------
(* Style resolution: an element is configured, then queried (the           *)
(* configuration phase precedes the query phase)                           *)

InitStyle ==
    /\ kind \in Kinds
    /\ args = EmptyMap
    /\ rules = <<>>
    /\ type_style = EmptyMap
    /\ panel_style = EmptyMap
    /\ ctx = NoCtx
    /\ ret = EmptyMap
    /\ warned = <<>>
    /\ live = {}
    /\ LayoutIdle
    /\ ObjIdle
    /\ DataIdle

\* StyleElement.updateArgs({k: v})
UpdateArgs ==
    /\ ~ctx.called
    /\ \E k \in Keys, v \in DefaultVals : args' = MapUpdate(args, OneKey(k, v))
    /\ UNCHANGED <<kind, rules, type_style, panel_style, ctx, ret, warned, live, layoutVars, objVars, dataVars>>

\* StyleElement.addRule(StyleRule(c, {"a": v}))
AddRule ==
    /\ ~ctx.called
    /\ Len(rules) < MaxRules
    /\ \E c \in Conds, v \in RuleVals :
          rules' = Append(rules, [cond |-> <<c>>, args |-> OneKey("a", v)])
    /\ UNCHANGED <<kind, args, type_style, panel_style, ctx, ret, warned, live, layoutVars, objVars, dataVars>>

\* StyleElement.addTypeStyle(t, {"a": v}) of style_elements.py
AddTypeStyle ==
    /\ ~ctx.called
    /\ kind \in ArgsKinds
    /\ \E t \in Tags, v \in TagVals :
          type_style' = MapSet(type_style, t, MapUpdate(OneKey("a", v), EmptyMap))
    /\ UNCHANGED <<kind, args, rules, panel_style, ctx, ret, warned, live, layoutVars, objVars, dataVars>>

\* VizArgs.addPanelStyle(PanelProp, "x", {"a": v})
AddPanelStyle ==
    /\ ~ctx.called
    /\ kind \in VizKinds
    /\ \E v \in PanelVals :
          panel_style' = VizArgs_addPanelStyle(panel_style, PanelProp, <<"x">>, OneKey("a", v))
    /\ UNCHANGED <<kind, args, rules, type_style, ctx, ret, warned, live, layoutVars, objVars, dataVars>>

\* getStyles(dg[, i, j[, k]]) for one context, once the element is configured
GetStyles ==
    /\ ~ctx.called
    /\ \E c \in Contexts(kind) :
          /\ ctx' = c
          /\ ret' = GetStylesOf(kind, args, rules, type_style, panel_style, c)
          /\ warned' = WarningsOf(kind, type_style, c)
    /\ UNCHANGED <<kind, args, rules, type_style, panel_style, live, layoutVars, objVars, dataVars>>

NextStyle ==
    \/ UpdateArgs
    \/ AddRule
    \/ AddTypeStyle
    \/ AddPanelStyle
    \/ GetStyles

SpecStyle == InitStyle /\ [][NextStyle]_vars

-----------------------------------------------------------------------------
(* A StyleRule on its own: conditions are added and removed, then the rule *)
(* is called                                                               *)

\* StyleRule(condition, {"a": v}) with one condition or a list of none
InitRule ==
    /\ kind = "StyleRule"
    /\ args = EmptyMap
    /\ \E cs \in {<<>>} \cup {<<c>> : c \in Conds}, v \in RuleVals :
          /\ rules = <<[cond |-> cs, args |-> OneKey("a", v)]>>
          /\ live = {cs[n] : n \in 1..Len(cs)}
    /\ type_style = EmptyMap
    /\ panel_style = EmptyMap
    /\ ctx = NoCtx
    /\ ret = EmptyMap
    /\ warned = <<>>
    /\ LayoutIdle
    /\ ObjIdle
    /\ DataIdle

\* rule.addCondition(c)
AddCondition ==
    /\ ~ctx.called
    /\ Len(rules[1].cond) < MaxConds
    /\ \E c \in Conds :
          /\ rules' = <<[rules[1] EXCEPT !.cond = StyleRule_addCondition(@, c)]>>
          /\ live' = live \cup {c}
    /\ UNCHANGED <<kind, args, type_style, panel_style, ctx, ret, warned, layoutVars, objVars, dataVars>>

\* rule.rmCondition(c)
RmCondition ==
    /\ ~ctx.called
    /\ \E c \in Conds :
          /\ rules' = <<[rules[1] EXCEPT !.cond = StyleRule_rmCondition(@, c)]>>
          /\ live' = live \ {c}
    /\ UNCHANGED <<kind, args, type_style, panel_style, ctx, ret, warned, layoutVars, objVars, dataVars>>

\* rule(dg) for a context in which the conditions of c.holds return True
CallRule ==
    /\ ~ctx.called
    /\ \E c \in Contexts(kind) :
          /\ ctx' = c
          /\ ret' = StyleRule_call(rules[1], c)
    /\ UNCHANGED <<kind, args, rules, type_style, panel_style, warned, live, layoutVars, objVars, dataVars>>

NextRule ==
    \/ AddCondition
    \/ RmCondition
    \/ CallRule

SpecRule == InitRule /\ [][NextRule]_vars

-----------------------------------------------------------------------------
(* An element as objects: it is configured, queried, the caller changes   *)
(* the dict it got, and the element is queried again with the same context *)

\* how a configuration call writes the value of its key: the call is not
\* made, the value is a number, the value is a list
ValueKinds == {"no", "int", "list"}

\* the element after updateArgs({dk: d}), addRule(StyleRule(c1, {"a": r})),
\* addTypeStyle("t", {"a": t}) and addPanelStyle(PanelProp, "x", {"a": p}),
\* each call made unless its value kind is "no"
ObjConfigured(kd, dk, d, r, t, p) ==
    LET w0 == Obj_init(kd)
        w1 == IF d = "no" THEN w0 ELSE Obj_updateArgs(w0, dk, d, 1)
        w2 == IF r = "no" THEN w1 ELSE Obj_addRule(w1, <<"c1">>, "a", r, 3)
        w3 == IF t = "no" THEN w2 ELSE Obj_addTypeStyle(w2, "t", "a", t, 2)
    IN IF p = "no" THEN w3 ELSE Obj_addPanelStyle(w3, PanelProp, "x", "a", p, 6)

InitObj ==
    /\ \E kd \in Kinds, dk \in Keys, d \in ValueKinds, r \in ValueKinds,
          t \in ValueKinds, p \in ValueKinds :
          /\ d = "no" => dk = "a"
          /\ kd \notin ArgsKinds => t = "no"
          /\ kd \notin VizKinds => p = "no"
          /\ heap = ObjConfigured(kd, dk, d, r, t, p).heap
          /\ oelem = ObjConfigured(kd, dk, d, r, t, p).elem
    /\ octx = NoCtx
    /\ ores = <<>>
    /\ oval = <<>>
    /\ ntouch = 0
    /\ LayoutIdle
    /\ StyleIdle
    /\ DataIdle

\* getStyles: the first call for some context, the second for the same one
ObjGetStyles ==
    /\ Len(ores) < 2
    /\ \E c \in (IF ores = <<>> THEN Contexts(oelem.kind) ELSE {octx}) :
          LET r == Obj_getStyles(heap, oelem, c)
          IN /\ heap' = r.heap
             /\ oelem' = r.elem
             /\ octx' = c
             /\ ores' = Append(ores, r.ret)
             /\ oval' = Append(oval, Deref(r.heap, r.ret))
    /\ UNCHANGED <<ntouch, layoutVars, styleVars, dataVars>>

\* the caller stores a value under a key of the dict it got: ret[k] = 9
TouchSet ==
    /\ Len(ores) = 1 /\ ntouch < MaxTouch
    /\ \E k \in Keys : heap' = [heap EXCEPT ![ores[1]].m = MapSet(@, k, IntVal(9))]
    /\ ntouch' = ntouch + 1
    /\ UNCHANGED <<oelem, octx, ores, oval, layoutVars, styleVars, dataVars>>

\* the caller deletes a key of the dict it got: del ret[k]
TouchDel ==
    /\ Len(ores) = 1 /\ ntouch < MaxTouch
    /\ \E k \in DOMAIN heap[ores[1]].m :
          heap' = [heap EXCEPT ![ores[1]].m = [x \in DOMAIN @ \ {k} |-> @[x]]]
    /\ ntouch' = ntouch + 1
    /\ UNCHANGED <<oelem, octx, ores, oval, layoutVars, styleVars, dataVars>>

\* the caller changes in place the list stored under a key of the dict it
\* got: ret[k].append(..)
TouchInPlace ==
    /\ Len(ores) = 1 /\ ntouch < MaxTouch
    /\ \E k \in DOMAIN heap[ores[1]].m :
          /\ heap[ores[1]].m[k][1] = "ref"
          /\ heap' = [heap EXCEPT ![heap[ores[1]].m[k][2]].v = 9]
    /\ ntouch' = ntouch + 1
    /\ UNCHANGED <<oelem, octx, ores, oval, layoutVars, styleVars, dataVars>>

NextObj ==
    \/ ObjGetStyles
    \/ TouchSet
    \/ TouchDel
    \/ TouchInPlace

SpecObj == InitObj /\ [][NextObj]_vars

-----------------------------------------------------------------------------
(* An element and a mapping of its caller: the caller writes d = {'a': 1}, *)
(* builds the element, passes d to configuration calls, with or without    *)
(* keywords, changes d, and queries the element                            *)

\* the caller's d = {'a': 1}, the first object of the heap
CallerHeap == <<DictObj(OneKey("a", IntVal(1)))>>

\* the contexts of the queries: every condition holds or none, the tag "t"
\* or no tag, the panel value "x" or none
CallerContexts(kd) ==
    {c \in Contexts(kd) : c.holds \in {{}, Conds} /\ c.tags \in {<<>>, <<"t">>}
                           /\ c.pval \in {"none", "x"}}

\* E(), E(b = 2), E(d), E(d, b = 2)
InitCaller ==
    /\ \E kd \in Kinds, d \in {0, 1}, kw \in BOOLEAN :
          /\ heap = Obj_initWith(CallerHeap, kd, d, kw).heap
          /\ oelem = Obj_initWith(CallerHeap, kd, d, kw).elem
    /\ octx = NoCtx /\ ores = <<>> /\ oval = <<>> /\ ntouch = 0
    /\ LayoutIdle
    /\ StyleIdle
    /\ DataIdle

\* elem.updateArgs(d) and, in styles.py, elem.updateArgs(d, b = 2)
CallerUpdateArgs ==
    /\ ores = <<>>
    /\ \E kw \in (IF oelem.kind \in SEKinds THEN BOOLEAN ELSE {FALSE}) :
          LET w == Obj_updateArgsWith([heap |-> heap, elem |-> oelem], 1, kw)
          IN heap' = w.heap /\ oelem' = w.elem
    /\ UNCHANGED <<octx, ores, oval, ntouch, layoutVars, styleVars, dataVars>>

\* elem.addRule(StyleRule(c1, d)) and elem.addRule(StyleRule(c1, d, b = 2))
CallerAddRule ==
    /\ ores = <<>>
    /\ oelem.rules = <<>>
    /\ \E kw \in BOOLEAN :
          LET w == Obj_addRuleWith([heap |-> heap, elem |-> oelem], <<"c1">>, 1, kw)
          IN heap' = w.heap /\ oelem' = w.elem
    /\ UNCHANGED <<octx, ores, oval, ntouch, layoutVars, styleVars, dataVars>>

\* elem.addTypeStyle('t', d) and elem.addTypeStyle('t', d, b = 2)
CallerAddTypeStyle ==
    /\ ores = <<>>
    /\ oelem.kind \in ArgsKinds
    /\ \E kw \in BOOLEAN :
          LET w == Obj_addTypeStyleWith([heap |-> heap, elem |-> oelem], "t", 1, kw)
          IN heap' = w.heap /\ oelem' = w.elem
    /\ UNCHANGED <<octx, ores, oval, ntouch, layoutVars, styleVars, dataVars>>

\* elem.addPanelStyle('p', 'x', args[, b = 2]) where args is the caller's d
\* (given = "d"), a new {'a': 6} (given = "new") or a new {} (given = "empty");
\* a new dict that the element does not keep is no longer an object of the heap
CallerAddPanelStyleWith(given, kw) ==
    /\ ores = <<>>
    /\ oelem.kind \in VizKinds
    /\ LET h == IF given = "d" THEN heap
                ELSE Append(heap, DictObj(IF given = "new" THEN OneKey("a", IntVal(6))
                                          ELSE EmptyMap))
           d == IF given = "d" THEN 1 ELSE Len(heap) + 1
           w == Obj_addPanelStyleWith([heap |-> h, elem |-> oelem], PanelProp, "x", d, kw)
       IN /\ heap' = IF given = "d" \/ w.elem # oelem THEN w.heap ELSE heap
          /\ oelem' = w.elem
    /\ UNCHANGED <<octx, ores, oval, ntouch, layoutVars, styleVars, dataVars>>

CallerAddPanelStyle ==
    \E given \in {"d", "new", "empty"}, kw \in BOOLEAN : CallerAddPanelStyleWith(given, kw)

\* the caller changes its mapping: d['a'] = 9
CallerMutates ==
    /\ ntouch < MaxTouch
    /\ heap' = [heap EXCEPT ![1].m = MapSet(@, "a", IntVal(9))]
    /\ ntouch' = ntouch + 1
    /\ UNCHANGED <<oelem, octx, ores, oval, layoutVars, styleVars, dataVars>>

\* getStyles for one context, and once more for the same context
CallerGetStyles ==
    /\ Len(ores) < 2
    /\ \E c \in (IF ores = <<>> THEN CallerContexts(oelem.kind) ELSE {octx}) :
          LET r == Obj_getStyles(heap, oelem, c)
          IN /\ heap' = r.heap
             /\ oelem' = r.elem
             /\ octx' = c
             /\ ores' = Append(ores, r.ret)
             /\ oval' = Append(oval, Deref(r.heap, r.ret))
    /\ UNCHANGED <<ntouch, layoutVars, styleVars, dataVars>>

NextCaller ==
    \/ CallerUpdateArgs
    \/ CallerAddRule
    \/ CallerAddTypeStyle
    \/ CallerAddPanelStyle
    \/ CallerMutates
    \/ CallerGetStyles

SpecCaller == InitCaller /\ [][NextCaller]_vars

-----------------------------------------------------------------------------
(* What the claims speak of, read off the inputs *)

\* the layout's numbers, in 1/Unit of a ratio unit (panel sizes: whole)
LoVal(key) == lo[key].items[1]

\* the ratios of an axis as given (all ones when the layout has none)
RatioOf(key, n) == IF key \in DOMAIN lo THEN lo[key].items ELSE [k \in 1..n |-> Unit]

Built == pc \in {"cells", "done"}

\* positive ratios and panel sizes, non-negative spacing and margins, ratio
\* sequences as long as the grid
ValidLayout ==
    /\ Len(RatioOf("height_ratios", shape[1])) = shape[1]
    /\ Len(RatioOf("width_ratios", shape[2])) = shape[2]
    /\ \A n \in 1..shape[1] : RatioOf("height_ratios", shape[1])[n] > 0
    /\ \A n \in 1..shape[2] : RatioOf("width_ratios", shape[2])[n] > 0
    /\ LoVal("panel_width") > 0 /\ LoVal("panel_height") > 0
    /\ \A k \in {"top", "bottom", "left", "right", "wspace", "hspace"} : LoVal(k) >= 0

\* fractions with positive denominators
FracLE(x, y) == x[1] * y[2] <= y[1] * x[2]
FracEq(x, y) == x[1] * y[2] = y[1] * x[2]
FracAdd(x, y) ==
    IF x[2] = y[2] THEN <<x[1] + y[1], x[2]>> ELSE <<x[1] * y[2] + y[1] * x[2], x[2] * y[2]>>
FracMin(x, y) == IF FracLE(x, y) THEN x ELSE y
FracMax(x, y) == IF FracLE(x, y) THEN y ELSE x

\* the two rectangles share no area: their x extents or their y extents
\* overlap in at most a point
ZeroIntersection(r, q) ==
    \/ FracLE(FracMin(FracAdd(r.left, r.width), FracAdd(q.left, q.width)),
              FracMax(r.left, q.left))
    \/ FracLE(FracMin(FracAdd(r.bot, r.height), FracAdd(q.bot, q.height)),
              FracMax(r.bot, q.bot))

\* C2: in every build, figwidth = panel_width * (sum of width_ratios +
\* (cols-1) * wspace + left + right) and figheight likewise with rows,
\* height_ratios, hspace, top, bottom and panel_height.
C2_FigsizeIsSumOfParts ==
    Built =>
        /\ figsize[1] = LoVal("panel_width") *
               (SumSeq(RatioOf("width_ratios", shape[2])) + (shape[2] - 1) * LoVal("wspace")
                + LoVal("left") + LoVal("right"))
        /\ figsize[2] = LoVal("panel_height") *
               (SumSeq(RatioOf("height_ratios", shape[1])) + (shape[1] - 1) * LoVal("hspace")
                + LoVal("top") + LoVal("bottom"))

\* C3: the bottom edge of every placed cell (i, j), in device units, is
\* figheight - top*panel_height - panel_height*(heights of rows 0..i) -
\* panel_height*(the i hspace gaps above it), its left edge is
\* left*panel_width + panel_width*(widths of columns 0..j-1) +
\* panel_width*(the j wspace gaps before it), and a cell of a row above
\* lies entirely above a cell of a row below in the same column.
C3_CellEdges ==
    \A cell \in DOMAIN axes :
        LET i == cell[1]
            j == cell[2]
        IN /\ axes[cell].bot[1] =
                  figsize[2] - LoVal("top") * LoVal("panel_height")
                  - LoVal("panel_height") * SumSeq(Take(RatioOf("height_ratios", shape[1]), i + 1))
                  - LoVal("panel_height") * i * LoVal("hspace")
           /\ axes[cell].left[1] =
                  LoVal("left") * LoVal("panel_width")
                  + LoVal("panel_width") * SumSeq(Take(RatioOf("width_ratios", shape[2]), j))
                  + LoVal("panel_width") * j * LoVal("wspace")
           /\ \A below \in DOMAIN axes :
                  (below[2] = j /\ i < below[1]) =>
                      FracLE(FracAdd(axes[below].bot, axes[below].height), axes[cell].bot)

\* C4: for a valid layout, the rectangles of any two distinct placed cells
\* have zero area of intersection.
C4_NoOverlap ==
    \A c1 \in DOMAIN axes, c2 \in DOMAIN axes :
        (ValidLayout /\ c1 # c2) => ZeroIntersection(axes[c1], axes[c2])


\* C4 witness: a finished build of a valid layout with at least two rows and
\* two columns, unequal ratios and a panel size other than 1
C4_Witness ==
    /\ pc = "done"
    /\ ValidLayout
    /\ shape[1] >= 2 /\ shape[2] >= 2
    /\ Cardinality(DOMAIN axes) = shape[1] * shape[2]
    /\ "height_ratios" \in DOMAIN lo /\ lo["height_ratios"].items[1] # lo["height_ratios"].items[2]
    /\ LoVal("panel_height") > 1

\* the layout C5 speaks of: 1x1, no margins, no spacing, ratio [1] or none
C5_Layout ==
    /\ shape = <<1, 1>>
    /\ \A k \in {"top", "bottom", "left", "right", "wspace", "hspace"} : LoVal(k) = 0
    /\ RatioOf("height_ratios", 1) = <<Unit>>
    /\ RatioOf("width_ratios", 1) = <<Unit>>

\* C5: a finished build of a 1x1 grid with zero margins, zero spacing and
\* ratio [1] gives the single cell the rectangle (0, 0, 1, 1), whatever the
\* positive panel size.
C5_UnitGrid ==
    (pc = "done" /\ C5_Layout) =>
        /\ FracEq(axes[<<0, 0>>].left, <<0, 1>>)
        /\ FracEq(axes[<<0, 0>>].bot, <<0, 1>>)
        /\ FracEq(axes[<<0, 0>>].width, <<1, 1>>)
        /\ FracEq(axes[<<0, 0>>].height, <<1, 1>>)

\* the layout C6 speaks of: 2x2, equal ratios, margins 0.2, spacing 0.05,
\* panel_width = panel_height = 3
C6_Layout ==
    /\ shape = <<2, 2>>
    /\ \A k \in {"top", "bottom", "left", "right"} : LoVal(k) = Unit \div 5
    /\ \A k \in {"wspace", "hspace"} : LoVal(k) = Unit \div 20
    /\ LoVal("panel_width") = 3 /\ LoVal("panel_height") = 3
    /\ RatioOf("height_ratios", 2) = <<Unit, Unit>>
    /\ RatioOf("width_ratios", 2) = <<Unit, Unit>>

\* C6: in a finished build of that layout the figure is 7.35 by 7.35, the
\* left edge of cell (0,0) is left*panel_width from the figure's left side
\* and its top edge is top*panel_height below the figure's top.
C6_DefaultLayout ==
    (pc = "done" /\ C6_Layout) =>
        /\ figsize[1] = 3 * (2 * Unit + Unit \div 20 + 2 * (Unit \div 5))
        /\ figsize[2] = 3 * (2 * Unit + Unit \div 20 + 2 * (Unit \div 5))
        /\ FracEq(axes[<<0, 0>>].left, Frac((Unit \div 5) * 3, figsize[1]))
        /\ FracEq(FracAdd(axes[<<0, 0>>].bot, axes[<<0, 0>>].height),
                  Frac(figsize[2] - (Unit \div 5) * 3, figsize[2]))

\* C7: for a valid layout, every placed cell's normalized rectangle lies
\* inside the figure: left, bottom, width and height are in [0, 1],
\* left + width <= 1 and bottom + height <= 1.
C7_InsideFigure ==
    \A cell \in DOMAIN axes :
        ValidLayout =>
            /\ \A f \in {axes[cell].left, axes[cell].bot, axes[cell].width, axes[cell].height} :
                   FracLE(<<0, 1>>, f) /\ FracLE(f, <<1, 1>>)
            /\ FracLE(FracAdd(axes[cell].left, axes[cell].width), <<1, 1>>)
            /\ FracLE(FracAdd(axes[cell].bot, axes[cell].height), <<1, 1>>)


-----------------------------------------------------------------------------
(* The tiers of a resolved style, read off the configuration and the       *)
(* context of the last getStyles call                                      *)

Max(S) == CHOOSE x \in S : \A y \in S : y <= x

\* rule n of the element is satisfied by the context
Satisfied(n) == \A m \in 1..Len(rules[n].cond) : rules[n].cond[m] \in ctx.holds

\* the satisfied rules that set key k, by position in the rule list
RulesSetting(k) == {n \in 1..Len(rules) : Satisfied(n) /\ k \in DOMAIN rules[n].args}

\* the positions of the context's tag list whose tag has an override setting k
TagsSetting(k) ==
    {n \in 1..Len(ctx.tags) :
        ctx.tags[n] \in DOMAIN type_style /\ k \in DOMAIN type_style[ctx.tags[n]]}

\* the panel-value override selected by the item sets k
PanelSets(k) ==
    /\ ctx.pprop \in DOMAIN panel_style
    /\ ctx.pval \in DOMAIN panel_style[ctx.pprop]
    /\ k \in DOMAIN panel_style[ctx.pprop][ctx.pval]

RuleValue(k) == rules[Max(RulesSetting(k))].args[k]
TagValue(k) == type_style[ctx.tags[Max(TagsSetting(k))]][k]
PanelValue(k) == panel_style[ctx.pprop][ctx.pval][k]

\* the resolved style has value v under key k
Resolves(k, v) == k \in DOMAIN ret /\ ret[k] = v

\* the resolved style has for k what the defaults have
DefaultFor(k) == IF k \in DOMAIN args THEN Resolves(k, args[k]) ELSE k \notin DOMAIN ret

\* C1: for a figure-level or panel-level element with a type_style table,
\* every key resolves to the value of the last satisfied rule that sets it,
\* else to the value of the last tag override that sets it, else to the
\* default: rule beats tag beats default.
C1_RuleBeatsTagBeatsDefault ==
    (ctx.called /\ kind \in {"FigArgs", "PanelArgs"}) =>
        \A k \in Keys :
            IF RulesSetting(k) # {} THEN Resolves(k, RuleValue(k))
            ELSE IF TagsSetting(k) # {} THEN Resolves(k, TagValue(k))
            ELSE DefaultFor(k)

\* C8: for an item-level element, every key resolves to the value of the
\* last satisfied rule that sets it, else to the matching panel-value
\* override, else to the last tag override that sets it, else to the default.
C8_VizRuleWins ==
    (ctx.called /\ kind \in VizKinds) =>
        \A k \in Keys :
            IF RulesSetting(k) # {} THEN Resolves(k, RuleValue(k))
            ELSE IF PanelSets(k) THEN Resolves(k, PanelValue(k))
            ELSE IF TagsSetting(k) # {} THEN Resolves(k, TagValue(k))
            ELSE DefaultFor(k)

\* C9: for FigSE, PanelSE and the base StyleElement, every key that a
\* satisfied rule sets resolves to the value of the last-added such rule, and
\* a key that no satisfied rule sets resolves as in the defaults (a rule
\* whose predicate is false contributes nothing).
C9_LastSatisfiedRuleWins ==
    (ctx.called /\ kind \in {"StyleElement", "FigSE", "PanelSE"}) =>
        \A k \in Keys :
            IF RulesSetting(k) # {} THEN Resolves(k, RuleValue(k)) ELSE DefaultFor(k)

\* C9 witness: a FigSE queried with two satisfied rules that give key "a"
\* different values
C9_Witness ==
    /\ ctx.called /\ kind = "FigSE"
    /\ RulesSetting("a") = {1, 2}
    /\ rules[1].args["a"] # rules[2].args["a"]

C11_UnknownTagSkipped ==
    (ctx.called /\ kind \in TagKinds) =>
        /\ warned = SelectSeq(ctx.tags, LAMBDA t : t \notin DOMAIN type_style)
        /\ \A k \in Keys :
              IF kind = "VizArgs" /\ PanelSets(k) THEN Resolves(k, PanelValue(k))
              ELSE IF TagsSetting(k) # {} THEN Resolves(k, TagValue(k))
              ELSE IF RulesSetting(k) # {} THEN Resolves(k, RuleValue(k))
              ELSE DefaultFor(k)

\* C11 witness: a FigArgs queried with an unknown tag listed before a tag
\* that has an override
C11_Witness ==
    /\ ctx.called /\ kind = "FigArgs"
    /\ ctx.tags = <<"x", "t">>
    /\ "t" \in DOMAIN type_style
    /\ warned = <<"x">>
    /\ Resolves("a", type_style["t"]["a"])

\* C20: a rule applies as the conjunction of its conditions: called after
\* any sequence of addCondition and rmCondition, it returns its argument
\* mapping if every condition given or added and not removed since is true
\* for the context (so always, when none is left), and the empty mapping if
\* one of them is false.
C20_RuleIsConjunction ==
    (ctx.called /\ kind = "StyleRule") =>
        ret = IF live \subseteq ctx.holds THEN rules[1].args ELSE EmptyMap

\* C20 witness: a rule called with three conditions in its list, two of
\* them different, one true and one false for the context
C20_Witness ==
    /\ ctx.called /\ kind = "StyleRule"
    /\ live = {"c1", "c2"}
    /\ Len(rules[1].cond) = 3
    /\ ctx.holds = {"c1"}
    /\ ret = EmptyMap

\* C20 second witness: a rule left without a condition applies
C20_WitnessEmpty ==
    /\ ctx.called /\ kind = "StyleRule"
    /\ rules[1].cond = <<>>
    /\ ctx.holds = {}
    /\ ret = rules[1].args

-----------------------------------------------------------------------------
(* The element and its results as objects *)

\* the element by value: its ids, and what each of its dicts holds
ElemValue ==
    [elem |-> oelem,
     args |-> Deref(heap, oelem.args),
     rules |-> [n \in 1..Len(oelem.rules) |-> Deref(heap, oelem.rules[n].args)],
     type_style |-> [t \in DOMAIN oelem.type_style |-> Deref(heap, oelem.type_style[t])],
     panel_style |-> [q \in DOMAIN oelem.panel_style |->
                        [v \in DOMAIN oelem.panel_style[q] |->
                            Deref(heap, oelem.panel_style[q][v])]]]

\* C12: a getStyles call, on any element kind and context, leaves the
\* element as it was: the same rule list, and the same contents of the
\* defaults, of every rule's argument mapping, of the type_style table and
\* of the panel_style table.
C12_GetStylesKeepsElement ==
    [][Len(ores') > Len(ores) => ElemValue' = ElemValue]_vars

\* C12 witness: a getStyles call returned, for a context in which the
\* element's rule is satisfied and gives a key something else than the
\* defaults do
C12_Witness ==
    /\ Len(ores) = 1
    /\ Len(oelem.rules) = 1 /\ "c1" \in octx.holds
    /\ "a" \in DOMAIN heap[oelem.args].m
    /\ oval[1]["a"] # Deref(heap, oelem.args)["a"]

\* C13: whatever the caller does to the dict one getStyles call returned
\* (storing, deleting or overwriting keys, changing a stored list in place),
\* the next call with the same configuration and context returns what the
\* first call returned.
C13_ResultIsIsolated ==
    Len(oval) = 2 => oval[2] = oval[1]

\* C14: two getStyles calls with the same context, with nothing done in
\* between, return mappings that are equal by value, for every element kind.
C14_Idempotent ==
    (Len(oval) = 2 /\ ntouch = 0) => oval[2] = oval[1]

\* C14 witness: an item-level element queried twice in a row, with a
\* satisfied rule, a recognized tag and a defaults key in the result
C14_Witness ==
    /\ Len(oval) = 2 /\ ntouch = 0
    /\ oelem.kind = "VizArgs"
    /\ Len(oelem.rules) = 1 /\ "c1" \in octx.holds
    /\ octx.tags = <<"x", "t">> /\ "t" \in DOMAIN oelem.type_style
    /\ DOMAIN oval[2] = {"a", "b"}

-----------------------------------------------------------------------------
(* The claims about invalid and incomplete layouts *)

\* the layout handed to makeFig has a non-positive ratio, a negative margin
\* or spacing, or a ratio sequence not as long as the grid
ListedInvalid ==
    \/ Len(RatioOf("height_ratios", shape[1])) # shape[1]
    \/ Len(RatioOf("width_ratios", shape[2])) # shape[2]
    \/ \E n \in DOMAIN RatioOf("height_ratios", shape[1]) :
           RatioOf("height_ratios", shape[1])[n] <= 0
    \/ \E n \in DOMAIN RatioOf("width_ratios", shape[2]) :
           RatioOf("width_ratios", shape[2])[n] <= 0
    \/ \E k \in {"top", "bottom", "left", "right", "wspace", "hspace"} : LoVal(k) < 0

\* makeFig has run on the StyleGrid
MakeFigRan == lo # EmptyMap /\ pc \in {"cells", "done", "error"}

\* C15: a figure build whose layout has a non-positive ratio, a negative
\* margin or spacing, or a ratio sequence of the wrong length fails before
\* any geometry is computed: it ends in an error, with no figure size and no
\* panel rectangle.
C15_InvalidLayoutFailsFast ==
    (MakeFigRan /\ ListedInvalid) =>
        (pc = "error" /\ figsize = <<>> /\ axes = EmptyMap)

\* C16: getStyles of a Layout raises if and only if a required key is absent
\* from the element's defaults, whatever its rules supply; the error names
\* an absent key (the absent key when there is one only) and no mapping is
\* returned; without an error the resolved mapping is returned.
C16_RaisesIffKeyMissing ==
    (pc \in {"queried", "error"}) =>
        /\ (pc = "error") = (RequiredOf(kind) \ DOMAIN largs # {})
        /\ pc = "error" =>
              /\ err \in {"ValueError", "KeyError"}
              /\ errkey \in RequiredOf(kind) \ DOMAIN largs
              /\ ret = EmptyMap
        /\ pc = "queried" =>
              /\ err = "none"
              /\ ret = IF lrules = <<>> THEN largs ELSE MapSet(largs, "top", KeyVal)

\* C16 witness: getStyles of styles.py's Layout raised and named 'top', the
\* one key absent from the defaults, although a rule supplies 'top'
C16_Witness ==
    /\ pc = "error"
    /\ kind = "Layout"
    /\ NEED_KEYS \ DOMAIN largs = {"top"}
    /\ errkey = "top"
    /\ Len(lrules) = 1
    /\ "top" \in DOMAIN StyleRule_call(lrules[1], FigCtx)

\* C27: a call of Layout.updateArgs that raises ValueError for a key that is
\* not a layout key leaves the element's defaults exactly as they were before
\* the call, the recognized keys of the same call included.
C27_UpdateArgsAllOrNothing ==
    [][(pc = "config" /\ pc' = "rejected") => largs' = largs]_vars

-----------------------------------------------------------------------------
(* The claims about the StyleGrid and what the backend does with it *)

\* the reserved keys of the element registered under a name: the legend's
\* slc_key
ReservedKeys(name) == IF name = "legend" THEN {"_slc"} ELSE {}

\* C17: no mapping of the StyleGrid and no keyword set of a draw call
\* contains a reserved key of the element it belongs to.
C17_ReservedKeysNotForwarded ==
    /\ \A name \in DOMAIN fstyles : DOMAIN fstyles[name] \cap ReservedKeys(name) = {}
    /\ \A name \in DOMAIN astyles_all :
          DOMAIN astyles_all[name] \cap ReservedKeys(name) = {}
    /\ \A cell \in DOMAIN astyles : \A name \in DOMAIN astyles[cell] :
          DOMAIN astyles[cell][name] \cap ReservedKeys(name) = {}
    /\ \A d \in drawn : DOMAIN d.kwargs \cap ReservedKeys(d.se) = {}

\* getStyleGrid returned and no element was configured since
GridFresh == pc \in {"styled", "cells", "done"} /\ late = 0

\* the registered names of a level
FigNames == {name \in DOMAIN elements : IsFigSE(elements[name].kind)}
PanelNames == {name \in DOMAIN elements : IsPanelSE(elements[name].kind)}

\* the element's getStyles(dg) and getStyles(dg, i, j)
FigStylesOf(name) == FigSE_getStyles(elements[name].args, elements[name].rules, FigCtx)
PanelStylesOf(name, cell) ==
    PanelSE_getStyles(elements[name].args, elements[name].rules,
                      CtxAt(shape, cell[1], cell[2]))

\* the cells of the grid
Cells == (0..(shape[1] - 1)) \X (0..(shape[2] - 1))

\* C18, as stated: the figure-level mapping has an entry for each registered
\* figure-level element, equal to its getStyles(dg), and the mapping of every
\* panel cell (i, j) has an entry for each registered panel-level element,
\* equal to its getStyles(dg, i, j).
C18_EveryCellHasEveryPanelElement ==
    GridFresh =>
        /\ lo = FigSE_getStyles(largs, lrules, FigCtx)
        /\ \A name \in FigNames :
              name \in DOMAIN fstyles /\ fstyles[name] = FigStylesOf(name)
        /\ \A cell \in Cells : \A name \in PanelNames :
              /\ name \in DOMAIN astyles[cell]
              /\ astyles[cell][name] = PanelStylesOf(name, cell)

\* C18, amended: the figure-level mapping has exactly one entry for each
\* registered figure-level element, equal to its getStyles(dg); a registered
\* panel-level element with at least one rule has an entry in the mapping of
\* every panel cell (i, j), equal to its getStyles(dg, i, j), and none in the
\* all-panels mapping; a registered panel-level element without rules has an
\* entry in the all-panels mapping, equal to its getStyles(dg, i, j) for
\* every cell, and none in the mapping of any cell.
C18_GridHoldsElementStyles ==
    GridFresh =>
        /\ lo = FigSE_getStyles(largs, lrules, FigCtx)
        /\ DOMAIN fstyles = FigNames
        /\ \A name \in FigNames : fstyles[name] = FigStylesOf(name)
        /\ DOMAIN astyles = Cells
        /\ DOMAIN astyles_all = {name \in PanelNames : elements[name].rules = <<>>}
        /\ \A cell \in Cells :
              /\ DOMAIN astyles[cell] = {name \in PanelNames : elements[name].rules # <<>>}
              /\ \A name \in DOMAIN astyles[cell] :
                    astyles[cell][name] = PanelStylesOf(name, cell)
              /\ \A name \in DOMAIN astyles_all :
                    astyles_all[name] = PanelStylesOf(name, cell)

\* C18 witness: the StyleGrid of a 2x2 grid with a FigSE that has a rule, a
\* Ticks element after setDefault, whose entries differ from cell to cell,
\* and a Legend without rules, in the all-panels mapping only
C18_Witness ==
    /\ GridFresh
    /\ shape = <<2, 2>>
    /\ "figure" \in DOMAIN fstyles
    /\ \A cell \in Cells : "ticks" \in DOMAIN astyles[cell]
    /\ fstyles["figure"] = [a |-> 1, b |-> 3]
    /\ astyles[<<0, 0>>]["ticks"] = [labelbottom |-> 0]
    /\ astyles[<<0, 1>>]["ticks"] = [labelbottom |-> 0, labelleft |-> 0]
    /\ astyles[<<1, 0>>]["ticks"] = EmptyMap
    /\ astyles[<<1, 1>>]["ticks"] = [labelleft |-> 0]
    /\ "legend" \in DOMAIN astyles_all
    /\ "legend" \notin DOMAIN astyles[<<0, 0>>]

\* what the StyleGrid returned by getStyleGrid holds for a draw call
SnapKwargs(d) ==
    IF d.fn = "Figure" THEN {snap.fstyles["figure"]}
    ELSE {snap.astyles_all[name] : name \in {d.se} \cap DOMAIN snap.astyles_all}
         \cup {snap.astyles[d.cell][name] : name \in {d.se} \cap DOMAIN snap.astyles[d.cell]}

\* C19: once getStyleGrid has returned, the StyleGrid the backend holds is
\* the one that was returned, whatever configuration calls follow, and every
\* draw call's keywords are an entry of that StyleGrid; a finished build has
\* made the draw calls of all its entries.
C19_GridIsSnapshot ==
    (pc \in {"styled", "cells", "done"}) =>
        /\ TheGrid = snap
        /\ \A d \in drawn : d.kwargs \in SnapKwargs(d)
        /\ pc = "done" =>
              \A cell \in Cells :
                 /\ \A name \in DOMAIN snap.astyles_all :
                       \E d \in drawn : d.cell = cell /\ d.se = name
                                         /\ d.kwargs = snap.astyles_all[name]
                 /\ \A name \in DOMAIN snap.astyles[cell] :
                       \E d \in drawn : d.cell = cell /\ d.se = name
                                         /\ d.kwargs = snap.astyles[cell][name]

\* C19 witness: a finished build after a configuration call that followed
\* getStyleGrid, with a draw call whose keywords are no longer what the
\* element's getStyles gives for that cell
C19_Witness ==
    /\ pc = "done"
    /\ late > 0
    /\ \E d \in drawn :
          /\ d.fn # "Figure"
          /\ d.se \in PanelNames
          /\ d.kwargs # PanelStylesOf(d.se, d.cell)

-----------------------------------------------------------------------------
(* The all-panels shortcut *)

\* the keywords of the style calls the backend made for an element on the
\* axes of a cell
DrawnFor(name, cell) ==
    {d.kwargs : d \in {x \in drawn : x.fn # "Figure" /\ x.se = name /\ x.cell = cell}}

\* C23: in a finished build from the StyleGrid of the present configuration,
\* the backend has styled every cell (i, j) for every registered panel-level
\* element with exactly that element's getStyles(dg, i, j), whether the
\* element went into the all-panels mapping or into the per-cell mappings,
\* and no name is in both.
C23_ShortcutEqualsPerCell ==
    (pc = "done" /\ late = 0) =>
        \A cell \in Cells :
            /\ DOMAIN astyles_all \cap DOMAIN astyles[cell] = {}
            /\ \A name \in PanelNames : DrawnFor(name, cell) = {PanelStylesOf(name, cell)}

\* C23 witness: a finished 2x2 build with a Legend without rules, taken from
\* the all-panels mapping for the last cell, and a Ticks element with rules,
\* taken from the cell's own mapping
C23_Witness ==
    /\ pc = "done" /\ late = 0
    /\ shape = <<2, 2>>
    /\ "legend" \in DOMAIN astyles_all
    /\ astyles_all["legend"] # EmptyMap
    /\ DrawnFor("legend", <<1, 1>>) = {astyles_all["legend"]}
    /\ "ticks" \in DOMAIN astyles[<<1, 1>>]
    /\ DrawnFor("ticks", <<1, 1>>) = {[labelleft |-> 0]}

-----------------------------------------------------------------------------
(* The default tick rules *)

\* C24: after setDefault, once or more than once, on a Ticks element whose
\* defaults set neither labelbottom nor labelleft, the resolved style of panel
\* (i, j) has labelbottom = False exactly when i is not the last row and
\* labelleft = False exactly when j is not 0, and is otherwise the defaults:
\* it does not depend on how often setDefault was called.
C24_TickLabelsOnOuterEdge ==
    (ctx.called /\ rules # <<>> /\ DOMAIN args \cap {"labelbottom", "labelleft"} = {}) =>
        /\ ("labelbottom" \in DOMAIN ret) = (ci # shape[1] - 1)
        /\ ("labelleft" \in DOMAIN ret) = (cj # 0)
        /\ \A k \in DOMAIN ret \cap {"labelbottom", "labelleft"} : ret[k] = 0
        /\ DOMAIN ret \ {"labelbottom", "labelleft"} = DOMAIN args
        /\ \A k \in DOMAIN args : ret[k] = args[k]

\* C24 witness: after two calls of setDefault the panel in the first row and
\* second column of a 2x2 grid has both labels off
C24_Witness ==
    /\ ctx.called
    /\ Len(rules) = 2 * 2
    /\ shape = <<2, 2>> /\ ci = 0 /\ cj = 1
    /\ ret = [a |-> 1, labelbottom |-> 0, labelleft |-> 0]

-----------------------------------------------------------------------------
(* The panel-style table *)

\* C29: whatever addPanelStyle and rmPanelStyle calls were made, panel_style
\* has no property whose table of values is empty.
C29_NoEmptyValueTable ==
    \A panel_prop \in DOMAIN panel_style : panel_style[panel_prop] # EmptyMap

-----------------------------------------------------------------------------
(* The element and its caller's mapping *)

\* the entries of panel_style, by value
PanelStyleValues(h, e) ==
    [panel_prop \in DOMAIN e.panel_style |->
        [panel_val \in DOMAIN e.panel_style[panel_prop] |->
            Deref(h, e.panel_style[panel_prop][panel_val])]]

\* C26: an addPanelStyle call leaves the style registered for every pair
\* that has one as it was, and an addPanelStyle call with an empty style
\* mapping changes nothing.
C26_FirstWriteWins ==
    [][/\ CallerAddPanelStyle =>
             \A panel_prop \in DOMAIN oelem.panel_style :
                 \A panel_val \in DOMAIN oelem.panel_style[panel_prop] :
                     /\ panel_prop \in DOMAIN oelem'.panel_style
                     /\ panel_val \in DOMAIN oelem'.panel_style[panel_prop]
                     /\ PanelStyleValues(heap', oelem')[panel_prop][panel_val]
                           = PanelStyleValues(heap, oelem)[panel_prop][panel_val]
       /\ CallerAddPanelStyleWith("empty", FALSE) =>
             PanelStyleValues(heap', oelem') = PanelStyleValues(heap, oelem)]_vars

\* what the caller wrote into its mapping d
CallerWrote == OneKey("a", IntVal(IF ntouch = 0 THEN 1 ELSE 9))

\* C28: the mapping passed to the constructor, to StyleRule, updateArgs,
\* addTypeStyle or addPanelStyle holds what its caller wrote into it, no
\* call has modified it; and two queries of the element for the same context
\* return the same, whatever the caller did to the mapping in between.
C28_CallerMappingIsolated ==
    /\ Deref(heap, 1) = CallerWrote
    /\ Len(oval) = 2 => oval[2] = oval[1]

-----------------------------------------------------------------------------
(* The match rule *)

\* the item has the property key with a value equal to the attribute's, or
\* a member of it when the attribute's value is a list
HasMatching(props, attrs, key) ==
    /\ key \in DOMAIN props
    /\ props[key] \in {attrs[key].items[n] : n \in 1..Len(attrs[key].items)}

\* C21: the match rule contributes its plot_args to the item asked for
\* exactly when the item has every property named in in_attrs with a
\* matching value and no property named in rm_attrs with a matching value;
\* an item that lacks a property named in in_attrs gets nothing from it.
C21_MatchRuleContributesIffMatch ==
    (ctx.called /\ rules # <<>>) =>
        ("c" \in DOMAIN ret) =
            (/\ \A key \in DOMAIN rules[1].in_attrs :
                    HasMatching(ctx.props, rules[1].in_attrs, key)
             /\ \A key \in DOMAIN rules[1].rm_attrs :
                    ~HasMatching(ctx.props, rules[1].rm_attrs, key))

-----------------------------------------------------------------------------
(* The labels *)

\* the rows (ColLabel) or columns (RowLabel) of the grid in which the label
\* has a style for some panel
LabelLines ==
    {n \in 0..((IF kind = "ColLabel" THEN shape[1] ELSE shape[2]) - 1) :
        \E cell \in Cells :
            /\ (IF kind = "ColLabel" THEN cell[1] ELSE cell[2]) = n
            /\ Label_getStyles(kind, args, rules, type_style, shape, cell[1], cell[2])
                  # EmptyMap}

\* C22: once ColLabel() or RowLabel() has returned there is a label whose
\* getStyles(dg, i, j) is the resolved mapping when i (ColLabel) or j
\* (RowLabel) equals its '_idx' default and the empty mapping for every other
\* panel, and which therefore appears in exactly one row (ColLabel) or one
\* column (RowLabel) of the grid.
C22_LabelGatedByIndex ==
    pc # "config" =>
        /\ pc = "built"
        /\ \A cell \in Cells :
              Label_getStyles(kind, args, rules, type_style, shape, cell[1], cell[2])
                = IF (IF kind = "ColLabel" THEN cell[1] ELSE cell[2]) = args["_idx"]
                  THEN PanelArgs_getStyles(args, rules, type_style,
                                           CtxAt(shape, cell[1], cell[2]))
                  ELSE EmptyMap
        /\ Cardinality(LabelLines) = 1

-----------------------------------------------------------------------------
(* The manager's table of elements *)

\* the names of the elements added so far, and the one added last under a
\* name
AddedNames == {NameOf(added[n].kind) : n \in 1..Len(added)}
LastAdded(name) ==
    added[CHOOSE n \in 1..Len(added) :
              /\ NameOf(added[n].kind) = name
              /\ \A m \in (n + 1)..Len(added) : NameOf(added[m].kind) # name]

\* what the StyleGrid reports for a panel-level name in a cell
ReportedFor(name, cell) ==
    {astyles_all[x] : x \in {name} \cap DOMAIN astyles_all}
    \cup {astyles[cell][x] : x \in {name} \cap DOMAIN astyles[cell]}

\* C30: after any sequence of addElement calls the manager holds, for each
\* name an element was added under, exactly the element added last under
\* that name, and getStyleGrid reports under each name the styles of that
\* element only, and nothing under any other name.
C30_LastAddedWins ==
    /\ DOMAIN elements = AddedNames
    /\ \A name \in AddedNames : elements[name] = LastAdded(name)
    /\ pc = "styled" =>
          /\ DOMAIN fstyles \cup DOMAIN astyles_all \subseteq AddedNames
          /\ \A cell \in Cells : DOMAIN astyles[cell] \subseteq AddedNames
          /\ \A name \in AddedNames :
                IF IsFigSE(LastAdded(name).kind)
                THEN /\ name \in DOMAIN fstyles
                     /\ fstyles[name] = FigSE_getStyles(LastAdded(name).args,
                                                        LastAdded(name).rules, FigCtx)
                ELSE \A cell \in Cells :
                        ReportedFor(name, cell) =
                            {PanelSE_getStyles(LastAdded(name).args, LastAdded(name).rules,
                                               CtxAt(shape, cell[1], cell[2]))}

\* C30 witness: two FigSE elements with different defaults were added, a
\* Ticks element in between, and the StyleGrid has the second one's styles
\* under 'figure'
C30_Witness ==
    /\ pc = "styled"
    /\ Len(added) = 3
    /\ added[1].kind = "FigSE" /\ added[2].kind = "Ticks" /\ added[3].kind = "FigSE"
    /\ added[1].args = OneKey("a", 1)
    /\ added[3].args = OneKey("a", 2)
    /\ fstyles = OneKey("figure", OneKey("a", 2))

-----------------------------------------------------------------------------
(* Removing panels *)

\* the Panel objects of an array that hold something, as the set of their
\* ids, and where each is
HeldIds(pn) == {pn[i][j].id : i \in 1..Len(pn), j \in 1..Len(pn[1])} \ {0}
RowOf(pn, id) == CHOOSE i \in 1..Len(pn) : \E j \in 1..Len(pn[i]) : pn[i][j].id = id
ColOf(pn, id) == CHOOSE j \in 1..Len(pn[1]) : \E i \in 1..Len(pn) : pn[i][j].id = id

\* C25: a call of rmPanels(slc) that returns leaves none of the selected
\* panels that held data in the array, leaves an array without a row and
\* without a column of empty panels only, and leaves the panels that were not
\* selected and are still there in their relative row and column order.
C25_SelectedPanelsRemoved ==
    [][pc = "grid" => \A cells \in Slices(panels) :
          (RmPanelsOf(cells) /\ pc' = "removed") =>
              /\ \A c \in cells :
                    panels[c[1]][c[2]].len > 0
                        => (panels' = <<>> \/ panels[c[1]][c[2]].id \notin HeldIds(panels'))
              /\ panels' # <<>> =>
                    /\ NonEmptyRows(panels') = panels'
                    /\ NonEmptyRows(Transposed(panels')) = Transposed(panels')
                    /\ \A x \in HeldIds(panels'), y \in HeldIds(panels') :
                          /\ (RowOf(panels, x) < RowOf(panels, y))
                                => (RowOf(panels', x) < RowOf(panels', y))
                          /\ (ColOf(panels, x) < ColOf(panels, y))
                                => (ColOf(panels', x) < ColOf(panels', y))]_vars

====
